---- MODULE Spec2Model ----
(***************************************************************************)
(* Model of MOD10A1_albedo_analysis.js: the quality-mask construction, the *)
(* glacier-fraction classification, the annual / daily aggregation, the    *)
(* year series and the trend analysis, the pixel-level flag columns, the   *)
(* point inspector and the interactive interface.                          *)
(*                                                                         *)
(* Images are modelled pointwise: an ee.Image operation is the operation   *)
(* on the band values of one pixel, and a mask image is the set of pixels  *)
(* where it is 1.  Glacier fractions are integers in units of 1/10000      *)
(* (0.25 is 2500, 0.8999 is 8999); albedo means are exact rationals.       *)
(***************************************************************************)
EXTENDS Integers, Sequences, FiniteSets, TLC

VARIABLES
    qaOp,         \* which mask function produced qaMask
    qaConfig,     \* the qaConfig / flags object given to it
    qaMask,       \* the resulting mask image: the set of pixels where it is 1
    STATIC_GLACIER_FRACTION,  \* the glacier fraction of the pixel classified
    fracDone,     \* which of the two classifiers have run on that pixel
    masks,        \* createFractionMasks' result at that pixel
    pixelClass,   \* analyzePixelLevelData's class columns at that pixel
    region,       \* the pixels of glacier_geometry: how many of each kind
    aggOp,        \* "load", or the aggregation that produced the record
    dailyRec,     \* the feature analyzeDailyAlbedoHighSnowCoverOptimized returns
    annualRec,    \* the feature calculateAnnualAlbedoHighSnowCoverOptimized returns
    compareRec,   \* the feature compareWithUnfilteredAlbedoSafe returns
    seasons,      \* the region as observed in each study year
    seriesPc,     \* how far the script has got: "start", "annual", "arrays"
    annual_albedo_high_snow,  \* the annual feature collection
    dataArrays,   \* the (year, mean) pairs given to the trend analysis
    arrays,       \* the value dataArrays.evaluate hands to its callback
    meanRounded,  \* whether the mean of a run of equal values rounds off it
    trendPc,      \* "evaluate" before the callback runs, "returned" after
    locals,       \* the local variables of the callback
    printed,      \* the lines the callback has printed
    pixelImg,     \* the two QA bands of img at the pixel analyzePixelLevelData reads
    pixelDone,    \* whether analyzePixelLevelData has run on it
    pixelRow,     \* the columns of the pixel-level row that come from the QA bands
    clicked,      \* the sample of the clicked point: its properties, its fraction
    widgets,      \* basicQASelect and the checked flagCheckboxes at the click
    inspectDone,  \* whether the Map.onClick handler has run
    inspected,    \* what the handler printed
    ui,           \* the interface: widgets, labels, map layers, pending requests
    evaluateForm, \* how the platform hands a failed request to evaluate's callbacks
    uiFailures    \* how many requests have failed

qaVars == <<qaOp, qaConfig, qaMask>>
fracVars == <<STATIC_GLACIER_FRACTION, fracDone, masks, pixelClass>>
aggVars == <<region, aggOp, dailyRec, annualRec, compareRec>>
seriesVars == <<seasons, seriesPc, annual_albedo_high_snow, dataArrays>>
trendVars == <<arrays, meanRounded, trendPc, locals, printed>>
pixelVars == <<pixelImg, pixelDone, pixelRow>>
inspectVars == <<clicked, widgets, inspectDone, inspected>>
uiVars == <<ui, evaluateForm, uiFailures>>
vars == <<qaVars, fracVars, aggVars, seriesVars, trendVars, pixelVars, inspectVars,
          uiVars>>

(***************************************************************************)
(* SECTION 3: quality masks                                                *)
(***************************************************************************)

\* ee.Image.bitwiseAnd on non-negative integers
RECURSIVE bitwiseAnd(_, _)
bitwiseAnd(a, b) ==
    IF a = 0 \/ b = 0 THEN 0
    ELSE (a % 2) * (b % 2) + 2 * bitwiseAnd(a \div 2, b \div 2)

\* ee.Image.uint8 on the values of the flags band
uint8(a) == a % 256

LevelNames == {"best", "good", "ok", "all"}

\* a level value outside the four names ("" stands for a missing basicLevel)
Levels == LevelNames \cup {""}

FlagNames ==
    {"excludeInlandWater", "excludeVisibleScreenFail", "excludeNDSIScreenFail",
     "excludeTempHeightFail", "excludeSWIRAnomaly", "excludeProbablyCloudy",
     "excludeProbablyClear", "excludeHighSolarZenith"}

QA_BIT_MAPPING ==
    << [flag |-> "excludeInlandWater",       bit |-> 0, mask |-> 1],
       [flag |-> "excludeVisibleScreenFail", bit |-> 1, mask |-> 2],
       [flag |-> "excludeNDSIScreenFail",    bit |-> 2, mask |-> 4],
       [flag |-> "excludeTempHeightFail",    bit |-> 3, mask |-> 8],
       [flag |-> "excludeSWIRAnomaly",       bit |-> 4, mask |-> 16],
       [flag |-> "excludeProbablyCloudy",    bit |-> 5, mask |-> 32],
       [flag |-> "excludeProbablyClear",     bit |-> 6, mask |-> 64],
       [flag |-> "excludeHighSolarZenith",   bit |-> 7, mask |-> 128] >>

\* the mutant of getBasicQAMask: 'good' compares with lt instead of lte
getBasicQAMask_lt(img, level) ==
    LET basicQA == img.basicQA
        qualityMask ==
            CASE level = "best" -> basicQA = 0
              [] level = "good" -> basicQA < 1
              [] level = "ok"   -> basicQA <= 2
              [] level = "all"  -> basicQA <= 3
              [] OTHER          -> basicQA <= 1
        excludeMask == basicQA # 211 /\ basicQA # 239
    IN  qualityMask /\ excludeMask

getBasicQAMask(img, level) ==
    LET basicQA == img.basicQA
        qualityMask ==
            CASE level = "best" -> basicQA = 0
              [] level = "good" -> basicQA <= 1
              [] level = "ok"   -> basicQA <= 2
              [] level = "all"  -> basicQA <= 3
              [] OTHER          -> basicQA <= 1
        excludeMask == basicQA # 211 /\ basicQA # 239
    IN  qualityMask /\ excludeMask

\* the forEach loop of getAlgorithmFlagsMask, from entry i of QA_BIT_MAPPING on
RECURSIVE flagsLoop(_, _, _, _)
flagsLoop(algFlags, flags, i, mask) ==
    IF i > Len(QA_BIT_MAPPING) THEN mask
    ELSE LET mapping == QA_BIT_MAPPING[i]
         IN  flagsLoop(algFlags, flags, i + 1,
                 IF flags[mapping.flag]
                 THEN mask /\ (bitwiseAnd(algFlags, mapping.mask) = 0)
                 ELSE mask)

\* the mutant of getAlgorithmFlagsMask: the loop stops before the last entry
getAlgorithmFlagsMask_short(img, flags) ==
    LET algFlags == uint8(img.algorithmFlags)
    IN  \A i \in 1..(Len(QA_BIT_MAPPING) - 1) :
            flags[QA_BIT_MAPPING[i].flag] =>
                bitwiseAnd(algFlags, QA_BIT_MAPPING[i].mask) = 0

getAlgorithmFlagsMask(img, flags) ==
    LET algFlags == uint8(img.algorithmFlags)
    IN  flagsLoop(algFlags, flags, 1, TRUE)

createComprehensiveQualityMask(img, cfg) ==
    LET basicMask == getBasicQAMask(img, IF cfg.basicLevel = "" THEN "good"
                                         ELSE cfg.basicLevel)
        flagsMask == getAlgorithmFlagsMask(img, cfg)
    IN  basicMask /\ flagsMask

StandardQAConfig ==
    [basicLevel               |-> "good",
     excludeInlandWater       |-> TRUE,
     excludeVisibleScreenFail |-> TRUE,
     excludeNDSIScreenFail    |-> TRUE,
     excludeTempHeightFail    |-> TRUE,
     excludeSWIRAnomaly       |-> TRUE,
     excludeProbablyCloudy    |-> TRUE,
     excludeProbablyClear     |-> FALSE,
     excludeHighSolarZenith   |-> TRUE]

\* the mutant of createStandardQualityMask: probably-cloudy is not excluded
createStandardQualityMask_cloudy(img) ==
    createComprehensiveQualityMask(img,
        [StandardQAConfig EXCEPT !.excludeProbablyCloudy = FALSE])

createStandardQualityMask(img) ==
    createComprehensiveQualityMask(img, StandardQAConfig)

(***************************************************************************)
(* Glacier-fraction classes                                                *)
(***************************************************************************)

FRACTION_THRESHOLDS == <<2500, 5000, 7500, 9000>>

FRACTION_CLASS_NAMES ==
    <<"glacier_0_25pct", "glacier_25_50pct", "glacier_50_75pct",
      "glacier_75_90pct", "glacier_90_100pct">>

\* the mutant of createFractionMasks: the upper ends compare with lte
createFractionMasks_lte(fractionImage, thresholds) ==
    [glacier_0_25pct   |-> fractionImage > 0 /\ fractionImage <= thresholds[1],
     glacier_25_50pct  |-> fractionImage >= thresholds[1] /\ fractionImage <= thresholds[2],
     glacier_50_75pct  |-> fractionImage >= thresholds[2] /\ fractionImage <= thresholds[3],
     glacier_75_90pct  |-> fractionImage >= thresholds[3] /\ fractionImage <= thresholds[4],
     glacier_90_100pct |-> fractionImage >= thresholds[4]]

createFractionMasks(fractionImage, thresholds) ==
    [glacier_0_25pct   |-> fractionImage > 0 /\ fractionImage < thresholds[1],
     glacier_25_50pct  |-> fractionImage >= thresholds[1] /\ fractionImage < thresholds[2],
     glacier_50_75pct  |-> fractionImage >= thresholds[2] /\ fractionImage < thresholds[3],
     glacier_75_90pct  |-> fractionImage >= thresholds[3] /\ fractionImage < thresholds[4],
     glacier_90_100pct |-> fractionImage >= thresholds[4]]

\* ee.Image.where: the value becomes v where the condition holds
where(image, cond, v) == IF cond THEN v ELSE image

\* the mutant of glacier_class_code: the 75-90% class starts above 0.75
glacier_class_code_gt(f) ==
    LET c1 == where(0,  f >= 0 /\ f < 2500, 1)
        c2 == where(c1, f >= 2500 /\ f < 5000, 2)
        c3 == where(c2, f >= 5000 /\ f < 7500, 3)
        c4 == where(c3, f > 7500 /\ f < 9000, 4)
    IN  where(c4, f >= 9000, 5)

\* the glacier_class_code band of analyzePixelLevelData
glacier_class_code(f) ==
    LET c1 == where(0,  f >= 0 /\ f < 2500, 1)
        c2 == where(c1, f >= 2500 /\ f < 5000, 2)
        c3 == where(c2, f >= 5000 /\ f < 7500, 3)
        c4 == where(c3, f >= 7500 /\ f < 9000, 4)
    IN  where(c4, f >= 9000, 5)

\* the mutant of class_text: the chain of If has no case for the code 4
class_text_short(class_code) ==
    IF class_code = 1 THEN "0-25%"
    ELSE IF class_code = 2 THEN "25-50%"
    ELSE IF class_code = 3 THEN "50-75%"
    ELSE "90-100%"

\* the glacier_class column decoded from the class code
class_text(class_code) ==
    IF class_code = 1 THEN "0-25%"
    ELSE IF class_code = 2 THEN "25-50%"
    ELSE IF class_code = 3 THEN "50-75%"
    ELSE IF class_code = 4 THEN "75-90%"
    ELSE "90-100%"

\* final_image.sample() keeps the pixels where every band is unmasked;
\* combined_image is masked by glacier_mask_sample
glacier_mask_sample(f) == f > 0

\* how far outside [0,1] the fractions of the model go
FracMargin == 20

FractionValues == (0 - FracMargin)..(10000 + FracMargin)

\* the values masks and pixelClass hold before their function has run
NoMasks == [c \in {FRACTION_CLASS_NAMES[i] : i \in 1..5} |-> FALSE]
NoPixelClass == [glacier_class_code |-> 0, glacier_class |-> "", sampled |-> FALSE]

FracIdle ==
    /\ STATIC_GLACIER_FRACTION = 0
    /\ fracDone = {}
    /\ masks = NoMasks
    /\ pixelClass = NoPixelClass

(***************************************************************************)
(* SECTIONS 4 and 5: annual and daily aggregation                          *)
(***************************************************************************)

NDSI_SNOW_THRESHOLD == 0
GLACIER_FRACTION_THRESHOLD == 75
MIN_PIXEL_THRESHOLD == 10

\* Exact rationals <<numerator, denominator>> in lowest terms, denominator > 0
RECURSIVE GCD(_, _)
GCD(a, b) == IF b = 0 THEN a ELSE GCD(b, a % b)

Abs(x) == IF x < 0 THEN 0 - x ELSE x

Rat(n, d) ==
    LET g == GCD(Abs(n), d)
    IN  <<n \div g, d \div g>>

RatAdd(x, y) == Rat(x[1] * y[2] + y[1] * x[2], x[2] * y[2])
RatSub(x, y) == Rat(x[1] * y[2] - y[1] * x[2], x[2] * y[2])
RatMul(x, y) == Rat(x[1] * y[1], x[2] * y[2])
RatDivInt(x, k) == Rat(x[1], x[2] * k)
RatLeq(x, y) == x[1] * y[2] <= y[1] * x[2]

\* s[1] + ... + s[n]
RECURSIVE SumTo(_, _)
SumTo(s, n) == IF n = 0 THEN 0 ELSE s[n] + SumTo(s, n - 1)

RECURSIVE RatSumTo(_, _)
RatSumTo(s, n) == IF n = 0 THEN <<0, 1>> ELSE RatAdd(s[n], RatSumTo(s, n - 1))

SeqSum(s) == SumTo(s, Len(s))
RatSeqSum(s) == RatSumTo(s, Len(s))

\* A number or null, as a feature property holds it; a masked pixel of a band
\* is null too
Null == [null |-> TRUE, value |-> <<0, 1>>]
Num(x) == [null |-> FALSE, value |-> x]

\* ee.Algorithms.If(condition, trueCase, null)
IfElseNull(condition, trueCase) == IF condition THEN trueCase ELSE Null

\* ee.Image.updateMask: the pixel stays where the mask is 1
updateMask(pixel, mask) == IF mask THEN pixel ELSE Null

\* One observation: the four selected bands of a MOD10A1 image at a pixel
Obs(qa, flags, ndsi, raw) ==
    [basicQA |-> qa, algorithmFlags |-> flags, ndsi |-> ndsi, raw |-> raw]

\* The kinds of pixel of the region: the static glacier fraction of the pixel
\* and its observation in each image of the season
PixelKinds ==
    << [frac |-> 9500, obs |-> <<Obs(0, 0, 50, 40),  Obs(1, 64, 80, 80)>>],
       [frac |-> 9500, obs |-> <<Obs(1, 64, 80, 80), Obs(1, 32, 80, 60)>>],
       [frac |-> 9500, obs |-> <<Obs(0, 0, 80, 101), Obs(2, 0, 80, 90)>>],
       [frac |-> 8000, obs |-> <<Obs(0, 0, 50, 40),  Obs(0, 0, 50, 100)>>],
       [frac |-> 3000, obs |-> <<Obs(1, 0, 80, 80),  Obs(0, 0, 80, 80)>>],
       [frac |-> 9000, obs |-> <<Obs(211, 0, 0, 50), Obs(0, 0, 0, 0)>>] >>

Kinds == 1..Len(PixelKinds)

\* the images of the season
Images == 1..Len(PixelKinds[1].obs)

\* the mutant of combined_mask: valid_albedo_mask is left out
combined_mask_noalbedo(o, frac) ==
    LET good_quality_mask == createStandardQualityMask(o)
        high_ndsi_mask == o.ndsi >= NDSI_SNOW_THRESHOLD
        high_glacier_fraction_mask == frac >= GLACIER_FRACTION_THRESHOLD * 100
    IN  good_quality_mask /\ high_ndsi_mask /\ high_glacier_fraction_mask

\* the mutant of combined_mask: high_glacier_fraction_mask is left out
combined_mask_nofraction(o, frac) ==
    LET good_quality_mask == createStandardQualityMask(o)
        high_ndsi_mask == o.ndsi >= NDSI_SNOW_THRESHOLD
        valid_albedo_mask == o.raw <= 100
    IN  good_quality_mask /\ high_ndsi_mask /\ valid_albedo_mask

\* combined_mask of both aggregations (GLACIER_FRACTION_THRESHOLD / 100 in
\* units of 1/10000 is GLACIER_FRACTION_THRESHOLD * 100)
combined_mask(o, frac) ==
    LET good_quality_mask == createStandardQualityMask(o)
        high_ndsi_mask == o.ndsi >= NDSI_SNOW_THRESHOLD
        high_glacier_fraction_mask == frac >= GLACIER_FRACTION_THRESHOLD * 100
        valid_albedo_mask == o.raw <= 100
    IN  good_quality_mask /\ high_ndsi_mask /\ high_glacier_fraction_mask
            /\ valid_albedo_mask

\* the mutant of albedo_scaled: the raw value is not divided by 100
albedo_scaled_raw(o, frac) ==
    updateMask(Num(Rat(o.raw, 1)), combined_mask(o, frac))

\* albedo_scaled = snow_albedo.divide(100).updateMask(combined_mask)
albedo_scaled(o, frac) ==
    updateMask(Num(Rat(o.raw, 100)), combined_mask(o, frac))

\* masked_albedos / validAlbedo: for each image d and class number c the band
\* albedo_scaled.updateMask(masks[className]), as its value at each pixel kind
masked_albedos ==
    [d \in Images |-> [c \in 1..5 |-> [k \in Kinds |->
        LET px == PixelKinds[k]
            fractionMasks == createFractionMasks(px.frac, FRACTION_THRESHOLDS)
        IN  updateMask(albedo_scaled(px.obs[d], px.frac),
                       fractionMasks[FRACTION_CLASS_NAMES[c]])]]]

\* high_snow_count / pixel_count: combined_mask as a 0/1 band of image d
high_snow_count ==
    [d \in Images |-> [k \in Kinds |->
        IF combined_mask(PixelKinds[k].obs[d], PixelKinds[k].frac) THEN 1 ELSE 0]]

\* ee.ImageCollection.mean of one band at one pixel: the mean of its unmasked
\* values, masked when there is none
collectionMean(values) ==
    LET unmasked == {d \in DOMAIN values : ~values[d].null}
    IN  IF unmasked = {} THEN Null
        ELSE Num(RatDivInt(
                 RatSeqSum([d \in DOMAIN values |->
                     IF d \in unmasked THEN values[d].value ELSE <<0, 1>>]),
                 Cardinality(unmasked)))

\* albedo_means = processed_collection.select(ANNUAL_CLASS_NAMES).mean()
albedo_means ==
    [c \in 1..5 |-> [k \in Kinds |->
        collectionMean([d \in Images |-> masked_albedos[d][c][k]])]]

\* ee.Reducer.count, mean, stdDev and median of reduceRegion: over the
\* unmasked pixels of a band, rg[k] being the number of pixels of kind k
reduceCount(rg, band) ==
    SeqSum([k \in Kinds |-> IF band[k].null THEN 0 ELSE rg[k]])

reduceSum(rg, band) ==
    RatSeqSum([k \in Kinds |->
        IF band[k].null THEN <<0, 1>> ELSE RatMul(<<rg[k], 1>>, band[k].value)])

reduceMean(rg, band) ==
    LET n == reduceCount(rg, band)
    IN  IF n = 0 THEN Null ELSE Num(RatDivInt(reduceSum(rg, band), n))

\* ee.Reducer.stdDev, held as its square: mean of squares minus squared mean
reduceStdDev(rg, band) ==
    LET n == reduceCount(rg, band)
        squares == [k \in Kinds |->
            IF band[k].null THEN Null
            ELSE Num(RatMul(band[k].value, band[k].value))]
    IN  IF n = 0 THEN Null
        ELSE LET mean == RatDivInt(reduceSum(rg, band), n)
             IN  Num(RatSub(RatDivInt(reduceSum(rg, squares), n),
                            RatMul(mean, mean)))

\* ee.Reducer.median: the central value, or the mean of the two central ones
reduceMedian(rg, band) ==
    LET n == reduceCount(rg, band)
        used == {k \in Kinds : ~band[k].null /\ rg[k] > 0}
        \* the number of unmasked pixels whose value is <= that of kind k
        below == [k \in Kinds |-> SeqSum([j \in Kinds |->
            IF j \in used /\ RatLeq(band[j].value, band[k].value)
            THEN rg[j] ELSE 0])]
        \* the i-th smallest value
        nth(i) == band[CHOOSE k \in used :
            /\ below[k] >= i
            /\ \A j \in used :
                   below[j] >= i => RatLeq(band[k].value, band[j].value)].value
    IN  IF n = 0 THEN Null
        ELSE IF n % 2 = 1 THEN Num(nth((n + 1) \div 2))
        ELSE Num(RatDivInt(RatAdd(nth(n \div 2), nth(n \div 2 + 1)), 2))

\* ee.Reducer.sum of a 0/1 band
reduceSumInt(rg, band) == SeqSum([k \in Kinds |-> rg[k] * band[k]])

\* the mutant of classProperties: sufficient only above the threshold
classProperties_gt(mean, spread, class_count) ==
    LET class_sufficient == class_count > MIN_PIXEL_THRESHOLD
    IN  [mean |-> IfElseNull(class_sufficient, mean),
         spread |-> IfElseNull(class_sufficient, spread),
         count |-> class_count,
         sufficient_pixels |-> class_sufficient]

\* the four properties of one class in a record: mean, stdDev (annual) or
\* median (daily) as spread, count and sufficient_pixels
classProperties(mean, spread, class_count) ==
    LET class_sufficient == class_count >= MIN_PIXEL_THRESHOLD
    IN  [mean |-> IfElseNull(class_sufficient, mean),
         spread |-> IfElseNull(class_sufficient, spread),
         count |-> class_count,
         sufficient_pixels |-> class_sufficient]

\* analyzeDailyAlbedoHighSnowCoverOptimized on image d over the region rg
analyzeDailyAlbedoHighSnowCoverOptimized(rg, d) ==
    LET classStats(c) ==
            LET validAlbedo == masked_albedos[d][c]
            IN  classProperties(reduceMean(rg, validAlbedo),
                                reduceMedian(rg, validAlbedo),
                                reduceCount(rg, validAlbedo))
        \* updateMask(STATIC_GLACIER_FRACTION.gt(0)), then the sum
        total_filtered ==
            reduceSumInt(rg, [k \in Kinds |->
                IF PixelKinds[k].frac > 0 THEN high_snow_count[d][k] ELSE 0])
    IN  [date |-> d,
         total_filtered_pixels |-> total_filtered,
         sufficient_total_pixels |-> total_filtered >= MIN_PIXEL_THRESHOLD,
         min_pixel_threshold |-> MIN_PIXEL_THRESHOLD,
         ndsi_snow_threshold |-> NDSI_SNOW_THRESHOLD,
         glacier_fraction_threshold |-> GLACIER_FRACTION_THRESHOLD,
         class |-> [c \in 1..5 |-> classStats(c)]]

\* calculateAnnualAlbedoHighSnowCoverOptimized(year) over the region rg
calculateAnnualAlbedoHighSnowCoverOptimized(rg, year) ==
    LET all_stats(c) ==
            classProperties(reduceMean(rg, albedo_means[c]),
                            reduceStdDev(rg, albedo_means[c]),
                            reduceCount(rg, albedo_means[c]))
        \* pixel_count_total: the sum of high_snow_pixel_count over the images
        pixel_count_total ==
            [k \in Kinds |-> SeqSum([d \in Images |-> high_snow_count[d][k]])]
        total_pixels == reduceSumInt(rg, pixel_count_total)
    IN  [year |-> year,
         ndsi_snow_threshold |-> NDSI_SNOW_THRESHOLD,
         glacier_fraction_threshold |-> GLACIER_FRACTION_THRESHOLD,
         min_pixel_threshold |-> MIN_PIXEL_THRESHOLD,
         total_filtered_pixels |-> total_pixels,
         sufficient_pixels |-> total_pixels >= MIN_PIXEL_THRESHOLD,
         class |-> [c \in 1..5 |-> all_stats(c)]]

\* the unfiltered_albedo and filtered_albedo bands of
\* compareWithUnfilteredAlbedoSafe on image d, at each pixel kind
unfiltered_albedo ==
    [d \in Images |-> [k \in Kinds |->
        LET o == PixelKinds[k].obs[d]
            glacier_pixels == PixelKinds[k].frac > 0
            base_mask == createStandardQualityMask(o) /\ o.raw <= 100
        IN  updateMask(updateMask(Num(Rat(o.raw, 100)), base_mask), glacier_pixels)]]

filtered_albedo ==
    [d \in Images |-> [k \in Kinds |->
        LET o == PixelKinds[k].obs[d]
            frac == PixelKinds[k].frac
            glacier_pixels == frac > 0
            base_mask == createStandardQualityMask(o) /\ o.raw <= 100
            double_filter_mask ==
                /\ base_mask
                /\ o.ndsi >= NDSI_SNOW_THRESHOLD
                /\ frac >= GLACIER_FRACTION_THRESHOLD * 100
        IN  updateMask(updateMask(Num(Rat(o.raw, 100)), double_filter_mask),
                       glacier_pixels)]]

\* a value given to ee.Algorithms.If as its condition: null is false, the
\* number 0 is false, every other number is true
condition(x) == ~x.null /\ x.value[1] # 0

\* compareWithUnfilteredAlbedoSafe on image d over the region rg
compareWithUnfilteredAlbedoSafe(rg, d) ==
    LET filtered_mean == reduceMean(rg, filtered_albedo[d])
        unfiltered_mean == reduceMean(rg, unfiltered_albedo[d])
        filtered_count == reduceCount(rg, filtered_albedo[d])
        unfiltered_count == reduceCount(rg, unfiltered_albedo[d])
        difference ==
            IF condition(filtered_mean)
            THEN IF condition(unfiltered_mean)
                 THEN Num(RatSub(filtered_mean.value, unfiltered_mean.value))
                 ELSE Null
            ELSE Null
    IN  [date |-> d,
         unfiltered_mean |-> unfiltered_mean,
         unfiltered_count |-> unfiltered_count,
         filtered_mean |-> filtered_mean,
         filtered_count |-> filtered_count,
         difference |-> difference,
         has_high_snow |-> IF filtered_mean.null THEN 0 ELSE 1]

\* the largest number of pixels of the region
MaxPixels == 11

EmptyRegion == [k \in Kinds |-> 0]

RegionSize(rg) == SeqSum(rg)

AggIdle ==
    /\ region = EmptyRegion
    /\ aggOp = "load"
    /\ dailyRec = analyzeDailyAlbedoHighSnowCoverOptimized(EmptyRegion, 1)
    /\ annualRec = calculateAnnualAlbedoHighSnowCoverOptimized(EmptyRegion, 2010)
    /\ compareRec = compareWithUnfilteredAlbedoSafe(EmptyRegion, 1)

(***************************************************************************)
(* The annual collection and the year series of the trend analysis         *)
(***************************************************************************)

STUDY_YEARS ==
    <<2010, 2011, 2012, 2013, 2014, 2015, 2016, 2017, 2018, 2019, 2020, 2021,
      2022, 2023, 2024>>

\* ee.Filter.neq(property, null) on the mean of the 90-100% class
neq_null(feature) == ~feature.class[5].mean.null

\* the mutant of pureIceData: the collection is not filtered
pureIceData_all(collection) == collection

\* pureIceData: annual_albedo_high_snow without the features whose
\* glacier_90_100pct_high_snow_mean is null
pureIceData(collection) == SelectSeq(collection, neq_null)

\* aggregate_array('year')
aggregate_array_year(collection) ==
    [i \in 1..Len(collection) |-> collection[i].year]

\* aggregate_array('glacier_90_100pct_high_snow_mean'): the non-null values
not_null(x) == ~x.null
aggregate_array_mean(collection) ==
    SelectSeq([i \in 1..Len(collection) |-> collection[i].class[5].mean], not_null)

\* ee.List.zip: pairs up to the length of the shorter list
zip(a, b) ==
    [i \in 1..(IF Len(a) < Len(b) THEN Len(a) ELSE Len(b)) |-> <<a[i], b[i]>>]

\* the number of study years of the model, the first ones of STUDY_YEARS
NYears == 4

\* the region as a year can observe it: MaxPixels pixels of glacier fraction
\* 0.95, few or none or all of them without a valid observation
YearRegions ==
    LET mixes == {m \in {0, 1} \X {0, 1, 2, MaxPixels} : m[1] + m[2] <= MaxPixels}
    IN  { [k \in Kinds |->
              CASE k = 1 -> MaxPixels - m[1] - m[2]
                [] k = 2 -> m[1]
                [] k = 3 -> m[2]
                [] OTHER -> 0] : m \in mixes }

SeriesIdle ==
    /\ seasons = <<>>
    /\ seriesPc = "start"
    /\ annual_albedo_high_snow = <<>>
    /\ dataArrays = <<>>

(***************************************************************************)
(* The deep statistical analysis: the callback of dataArrays.evaluate      *)
(*                                                                         *)
(* JavaScript numbers are modelled as exact rationals <<numerator,         *)
(* denominator>>; a value the script obtains with Math.sqrt is held as its *)
(* sign and its square.  The rounding of IEEE-754 doubles is left out      *)
(* except where it decides between 0/0 and a number: the mean of a run of  *)
(* equal values (meanRounded).                                             *)
(***************************************************************************)

\* a + b, a - b, a * b on numbers
plus(x, y) ==
    LET g == GCD(x[2], y[2])
    IN  Rat(x[1] * (y[2] \div g) + y[1] * (x[2] \div g), (x[2] \div g) * y[2])

minus(x, y) == plus(x, <<0 - y[1], y[2]>>)

times(x, y) ==
    LET g1 == GCD(Abs(x[1]), y[2])
        g2 == GCD(Abs(y[1]), x[2])
    IN  IF x[1] = 0 \/ y[1] = 0 THEN <<0, 1>>
        ELSE <<(x[1] \div g1) * (y[1] \div g2), (x[2] \div g2) * (y[2] \div g1)>>

\* a / b on numbers, b not zero
over(x, y) ==
    IF y[1] > 0 THEN times(x, <<y[2], y[1]>>)
    ELSE times(x, <<0 - y[2], 0 - y[1]>>)

\* a / b < c / d for a, c >= 0 and b, d > 0, by the whole parts and then the
\* remainders turned upside down (no product is formed)
RECURSIVE lessFraction(_, _, _, _)
lessFraction(a, b, c, d) ==
    IF a \div b # c \div d THEN a \div b < c \div d
    ELSE IF c % d = 0 THEN FALSE
    ELSE IF a % b = 0 THEN TRUE
    ELSE lessFraction(d, c % d, b, a % b)

\* a < b on numbers
less(x, y) ==
    IF x[1] < 0
    THEN y[1] >= 0 \/ lessFraction(0 - y[1], y[2], 0 - x[1], x[2])
    ELSE y[1] >= 0 /\ lessFraction(x[1], x[2], y[1], y[2])

\* Math.abs, Math.pow(a, 2)
Math_abs(x) == <<Abs(x[1]), x[2]>>
Math_pow2(x) == times(x, x)

sign(x) == IF x[1] > 0 THEN 1 ELSE IF x[1] < 0 THEN 0 - 1 ELSE 0

\* array.reduce(function(a, b) { return a + b; }) on s[1..n]
RECURSIVE reduceTo(_, _)
reduceTo(s, n) == IF n = 0 THEN <<0, 1>> ELSE plus(reduceTo(s, n - 1), s[n])
reduce(s) == reduceTo(s, Len(s))

\* array.slice(begin, end) with 0-based begin and exclusive end
slice(s, begin, end) == SubSeq(s, begin + 1, end)

\* A number that comes out of a square root or of a division by one: the
\* value sign * sqrt(sq), or NaN, or sign * Infinity; "undefined" is a
\* variable not yet assigned
Undefined == [kind |-> "undefined", sign |-> 0, sq |-> <<0, 1>>]
NaN == [kind |-> "NaN", sign |-> 0, sq |-> <<0, 1>>]
Infinity(s) == [kind |-> "Infinity", sign |-> s, sq |-> <<0, 1>>]
Finite(s, q) == [kind |-> "finite", sign |-> IF q[1] = 0 THEN 0 ELSE s, sq |-> q]

\* Math.sqrt(a) for a >= 0
Math_sqrt(x) == Finite(1, x)

\* a / b where a is a rational and b a root
overRoot(x, r) ==
    CASE r.kind \in {"undefined", "NaN"} -> NaN
      [] r.kind = "Infinity" -> Finite(0, <<0, 1>>)
      [] r.sign = 0 -> IF x[1] = 0 THEN NaN ELSE Infinity(sign(x))
      [] OTHER -> Finite(sign(x) * r.sign, over(Math_pow2(x), r.sq))

\* a / Math.sqrt(b * c) for rationals a, b >= 0, c >= 0: the square of the
\* quotient is (a / b) * (a / c)
overRootOfProduct(x, y, z) ==
    IF y[1] = 0 \/ z[1] = 0 THEN (IF x[1] = 0 THEN NaN ELSE Infinity(sign(x)))
    ELSE Finite(sign(x), times(over(x, y), over(x, z)))

\* a / b where a is a root and b a rational
rootOver(r, y) ==
    CASE r.kind \in {"undefined", "NaN"} -> NaN
      [] r.kind = "Infinity" -> IF y[1] = 0 THEN Infinity(r.sign)
                                ELSE Infinity(r.sign * sign(y))
      [] y[1] = 0 -> IF r.sign = 0 THEN NaN ELSE Infinity(r.sign)
      [] OTHER -> Finite(r.sign * sign(y), over(r.sq, Math_pow2(y)))

\* a * k for a root a and a positive integer k
rootTimes(r, k) ==
    IF r.kind = "finite" THEN Finite(r.sign, times(r.sq, <<k * k, 1>>)) ELSE r

\* a > q and a < b on roots (false whenever NaN or undefined is involved)
rootGreater(r, q) ==
    CASE r.kind = "Infinity" -> r.sign > 0
      [] r.kind = "finite" ->
            IF q[1] >= 0 THEN r.sign > 0 /\ less(Math_pow2(q), r.sq)
            ELSE r.sign >= 0 \/ less(r.sq, Math_pow2(q))
      [] OTHER -> FALSE

rootLess(r, t) ==
    /\ r.kind \in {"finite", "Infinity"}
    /\ t.kind \in {"finite", "Infinity"}
    /\ CASE r.kind = "Infinity" /\ t.kind = "Infinity" -> r.sign < t.sign
         [] r.kind = "Infinity" -> r.sign < 0
         [] t.kind = "Infinity" -> t.sign > 0
         [] r.sign # t.sign -> r.sign < t.sign
         [] r.sign >= 0 -> less(r.sq, t.sq)
         [] OTHER -> less(t.sq, r.sq)

rootAbs(r) == [r EXCEPT !.sign = IF @ = 0 THEN 0 ELSE 1]

\* a rational as a number of the kind above
number(x) == Finite(sign(x), Math_pow2(x))

\* slopes.sort(function(a, b) { return a - b; }): the values in ascending
\* order, equal ones in the order they had; rank[i] is the place of s[i]
sort(s) ==
    LET length == Len(s)
        rank == SubSeq([i \in 1..length |->
                           1 + Cardinality({j \in 1..length :
                                   \/ less(s[j], s[i])
                                   \/ j < i /\ ~less(s[i], s[j])})],
                       1, length)
    IN  SubSeq([k \in 1..length |-> s[CHOOSE i \in 1..length : rank[i] = k]],
               1, length)

\* the local variables of the callback before any of them is assigned
NoCV == [year |-> 0, cv |-> Undefined]

NoLocals ==
    [years |-> <<>>, albedoValues |-> <<>>, n |-> 0,
     slopes |-> <<>>, sensSlope |-> Null,
     changePoints |-> <<>>,
     mean |-> Null, variance |-> Null, stdDev |-> Undefined, cv |-> Undefined,
     rollingCV |-> <<>>, minCV |-> NoCV, maxCV |-> NoCV,
     anomalies |-> <<>>,
     autocorr |-> Undefined, persistence |-> "",
     splitPoint |-> 0, earlyMean |-> Null, lateMean |-> Null,
     periodDiff |-> Null, relativeChange |-> Undefined]

\* var years, albedoValues, n
datasetOverview(arr) ==
    [NoLocals EXCEPT !.years = SubSeq([i \in 1..Len(arr) |-> arr[i][1]], 1, Len(arr)),
                     !.albedoValues = SubSeq([i \in 1..Len(arr) |-> arr[i][2]], 1, Len(arr)),
                     !.n = Len(arr)]

\* the mutant of pushSlopes: the difference of the positions divides
RECURSIVE pushSlopes_index(_, _, _, _)
pushSlopes_index(years, albedoValues, n, i) ==
    IF i > n THEN <<>>
    ELSE SubSeq([k \in 1..(n - i) |->
                    over(minus(albedoValues[i + k], albedoValues[i]),
                         <<k, 1>>)], 1, n - i)
         \o pushSlopes_index(years, albedoValues, n, i + 1)

\* the mutant of pushSlopes: the absolute difference of the years divides
RECURSIVE pushSlopes_abs(_, _, _, _)
pushSlopes_abs(years, albedoValues, n, i) ==
    IF i > n THEN <<>>
    ELSE SubSeq([k \in 1..(n - i) |->
                    over(minus(albedoValues[i + k], albedoValues[i]),
                         <<Abs(years[i + k] - years[i]), 1>>)], 1, n - i)
         \o pushSlopes_abs(years, albedoValues, n, i + 1)

\* the mutant of pushSlopes: only the pairs of neighbours are taken
RECURSIVE pushSlopes_adjacent(_, _, _, _)
pushSlopes_adjacent(years, albedoValues, n, i) ==
    IF i > n THEN <<>>
    ELSE SubSeq([k \in 1..(IF i < n THEN 1 ELSE 0) |->
                    over(minus(albedoValues[i + k], albedoValues[i]),
                         <<years[i + k] - years[i], 1>>)], 1, IF i < n THEN 1 ELSE 0)
         \o pushSlopes_adjacent(years, albedoValues, n, i + 1)

\* the two for loops that fill slopes: for the 1-based position i, the
\* slopes to the positions after it, and then those of i + 1 and further
RECURSIVE pushSlopes(_, _, _, _)
pushSlopes(years, albedoValues, n, i) ==
    IF i > n THEN <<>>
    ELSE SubSeq([k \in 1..(n - i) |->
                    over(minus(albedoValues[i + k], albedoValues[i]),
                         <<years[i + k] - years[i], 1>>)], 1, n - i)
         \o pushSlopes(years, albedoValues, n, i + 1)

\* the mutant of sensSlopeBlock: the upper central value alone is taken
sensSlopeBlock_upper(e) ==
    LET slopes == sort(pushSlopes(e.years, e.albedoValues, e.n, 1))
    IN  [e EXCEPT !.slopes = slopes,
                  !.sensSlope = Num(slopes[Len(slopes) \div 2 + 1])]

\* 1. SEN'S SLOPE ESTIMATOR (slopes[k] of the script is slopes[k + 1] here)
sensSlopeBlock(e) ==
    LET slopes == sort(pushSlopes(e.years, e.albedoValues, e.n, 1))
        length == Len(slopes)
        sensSlope ==
            IF length % 2 = 0
            THEN over(plus(slopes[length \div 2], slopes[length \div 2 + 1]), <<2, 1>>)
            ELSE slopes[length \div 2 + 1]
    IN  [e EXCEPT !.slopes = slopes, !.sensSlope = Num(sensSlope)]

threshold == <<3, 100>>
window == 3

\* the mutant of changePointLoop: the change is compared with >=
RECURSIVE changePointLoop_gte(_, _, _)
changePointLoop_gte(e, i, changePoints) ==
    IF ~(i < e.n - window) THEN changePoints
    ELSE LET beforeSum == reduce(slice(e.albedoValues, i - window, i))
             afterSum == reduce(slice(e.albedoValues, i, i + window))
             before == over(beforeSum, <<window, 1>>)
             after == over(afterSum, <<window, 1>>)
             change == Math_abs(minus(after, before))
         IN  changePointLoop_gte(e, i + 1,
                 IF ~less(change, threshold)
                 THEN Append(changePoints,
                          [year |-> e.years[i + 1],
                           magnitude |-> change,
                           direction |-> IF less(before, after) THEN "increase"
                                         ELSE "decrease"])
                 ELSE changePoints)

\* the loop of the change point detection from the 0-based index i on
RECURSIVE changePointLoop(_, _, _)
changePointLoop(e, i, changePoints) ==
    IF ~(i < e.n - window) THEN changePoints
    ELSE LET beforeSum == reduce(slice(e.albedoValues, i - window, i))
             afterSum == reduce(slice(e.albedoValues, i, i + window))
             before == over(beforeSum, <<window, 1>>)
             after == over(afterSum, <<window, 1>>)
             change == Math_abs(minus(after, before))
         IN  changePointLoop(e, i + 1,
                 IF less(threshold, change)
                 THEN Append(changePoints,
                          [year |-> e.years[i + 1],
                           magnitude |-> change,
                           direction |-> IF less(before, after) THEN "increase"
                                         ELSE "decrease"])
                 ELSE changePoints)

\* 2. CHANGE POINT DETECTION
changePointBlock(e) ==
    [e EXCEPT !.changePoints = changePointLoop(e, window, <<>>)]

\* the reduce that finds minCV (or maxCV with the comparison turned round)
RECURSIVE reduceCV(_, _, _, _)
reduceCV(rollingCV, k, best, wantMin) ==
    IF k > Len(rollingCV) THEN best
    ELSE LET curr == rollingCV[k]
             better == IF wantMin THEN rootLess(curr.cv, best.cv)
                       ELSE rootLess(best.cv, curr.cv)
         IN  reduceCV(rollingCV, k + 1, IF better THEN curr ELSE best, wantMin)

\* 3. VARIANCE & STABILITY ANALYSIS
variabilityBlock(e) ==
    LET n == e.n
        mean == over(reduce(e.albedoValues), <<n, 1>>)
        variance ==
            over(reduce([i \in 1..n |-> Math_pow2(minus(e.albedoValues[i], mean))]),
                 <<n - 1, 1>>)
        stdDev == Math_sqrt(variance)
        cv == rootTimes(rootOver(stdDev, mean), 100)
        rollingCV ==
            [k \in 1..(n - 4) |->
                LET i == k + 3
                    windowData == slice(e.albedoValues, i - 4, i + 1)
                    windowMean == over(reduce(windowData), <<5, 1>>)
                    windowVar ==
                        over(reduce([m \in 1..5 |->
                                 Math_pow2(minus(windowData[m], windowMean))]),
                             <<4, 1>>)
                IN  [year |-> e.years[i + 1],
                     cv |-> rootTimes(rootOver(Math_sqrt(windowVar), windowMean), 100)]]
        withStats == [e EXCEPT !.mean = Num(mean), !.variance = Num(variance),
                               !.stdDev = stdDev, !.cv = cv]
    IN  IF n >= 5
        THEN [withStats EXCEPT !.rollingCV = rollingCV,
                               !.minCV = reduceCV(rollingCV, 2, rollingCV[1], TRUE),
                               !.maxCV = reduceCV(rollingCV, 2, rollingCV[1], FALSE)]
        ELSE withStats

\* (value - mean) / stdDev with the mean and stdDev the callback holds
zScoreOf(value, mean, stdDev) ==
    IF mean.null THEN NaN ELSE overRoot(minus(value, mean.value), stdDev)

\* the mutant of anomalyBlock: only positive z-scores are anomalies
anomalyBlock_positive(e) ==
    LET item(i) ==
            LET zScore == zScoreOf(e.albedoValues[i], e.mean, e.stdDev)
            IN  [year |-> e.years[i], albedo |-> e.albedoValues[i],
                 zScore |-> zScore, isAnomaly |-> rootGreater(zScore, <<2, 1>>)]
        isAnomaly(x) == x.isAnomaly
    IN  [e EXCEPT !.anomalies = SelectSeq([i \in 1..e.n |-> item(i)], isAnomaly)]

\* 4. ANOMALY DETECTION
anomalyBlock(e) ==
    LET item(i) ==
            LET zScore == zScoreOf(e.albedoValues[i], e.mean, e.stdDev)
            IN  [year |-> e.years[i], albedo |-> e.albedoValues[i],
                 zScore |-> zScore,
                 isAnomaly |-> rootGreater(rootAbs(zScore), <<2, 1>>)]
        isAnomaly(x) == x.isAnomaly
    IN  [e EXCEPT !.anomalies = SelectSeq([i \in 1..e.n |-> item(i)], isAnomaly)]

\* the tag printed with an anomaly
anomalyTag(anom) == IF rootGreater(anom.zScore, <<0, 1>>) THEN "HIGH" ELSE "LOW"

\* all the values of the array are the same
constantRun(s) == \A i \in 1..Len(s) : s[i] = s[1]

persistenceOf(autocorr) ==
    IF rootGreater(autocorr, <<1, 2>>) THEN "HIGH"
    ELSE IF rootGreater(autocorr, <<1, 5>>) THEN "MODERATE" ELSE "LOW"

\* 5. AUTOCORRELATION ANALYSIS.  rounded says that sum / length of a run of
\* equal values is a double other than the value: each x[i] - mean of such a
\* run is then the same tiny number d and not 0.  With both runs constant
\* numerator, denom1 and denom2 are all the same k * d * d and autocorr is 1;
\* with one of them constant numerator is d times the (rounded) sum of the
\* other run's deviations, a number below 1e-13 held here as 0.
autocorrelationBlock(e, rounded) ==
    LET n == e.n
        x1 == slice(e.albedoValues, 0, n - 1)
        x2 == slice(e.albedoValues, 1, n)
        mean1 == over(reduce(x1), <<Len(x1), 1>>)
        mean2 == over(reduce(x2), <<Len(x2), 1>>)
        numerator == reduce([i \in 1..Len(x1) |->
                         times(minus(x1[i], mean1), minus(x2[i], mean2))])
        denom1 == reduce([i \in 1..Len(x1) |-> Math_pow2(minus(x1[i], mean1))])
        denom2 == reduce([i \in 1..Len(x1) |-> Math_pow2(minus(x2[i], mean2))])
        autocorr ==
            IF rounded /\ constantRun(x1) /\ constantRun(x2) THEN Finite(1, <<1, 1>>)
            ELSE IF rounded /\ (constantRun(x1) \/ constantRun(x2))
                 THEN Finite(0, <<0, 1>>)
            ELSE overRootOfProduct(numerator, denom1, denom2)
    IN  IF n >= 3
        THEN [e EXCEPT !.autocorr = autocorr, !.persistence = persistenceOf(autocorr)]
        ELSE e

\* the mutant of climateSignalBlock: the late period starts at splitPoint
climateSignalBlock_overlap(e) ==
    LET n == e.n
        splitPoint == (n + 1) \div 2
        earlyPeriod == slice(e.albedoValues, 0, splitPoint)
        latePeriod == slice(e.albedoValues, n - splitPoint, n)
        earlyMean == over(reduce(earlyPeriod), <<Len(earlyPeriod), 1>>)
        lateMean == over(reduce(latePeriod), <<Len(latePeriod), 1>>)
        periodDiff == minus(lateMean, earlyMean)
        relativeChange == rootTimes(overRoot(periodDiff, number(earlyMean)), 100)
    IN  IF n >= 10
        THEN [e EXCEPT !.splitPoint = splitPoint, !.earlyMean = Num(earlyMean),
                       !.lateMean = Num(lateMean), !.periodDiff = Num(periodDiff),
                       !.relativeChange = relativeChange]
        ELSE e

\* 6. CLIMATE SIGNAL ANALYSIS
climateSignalBlock(e) ==
    LET n == e.n
        splitPoint == n \div 2
        earlyPeriod == slice(e.albedoValues, 0, splitPoint)
        latePeriod == slice(e.albedoValues, n - splitPoint, n)
        earlyMean == over(reduce(earlyPeriod), <<Len(earlyPeriod), 1>>)
        lateMean == over(reduce(latePeriod), <<Len(latePeriod), 1>>)
        periodDiff == minus(lateMean, earlyMean)
        relativeChange == rootTimes(overRoot(periodDiff, number(earlyMean)), 100)
    IN  IF n >= 10
        THEN [e EXCEPT !.splitPoint = splitPoint, !.earlyMean = Num(earlyMean),
                       !.lateMean = Num(lateMean), !.periodDiff = Num(periodDiff),
                       !.relativeChange = relativeChange]
        ELSE e

\* the word printed after 'Climate signal: '
climateSignal(relativeChange) ==
    IF rootGreater(rootAbs(relativeChange), <<5, 1>>) THEN "STRONG"
    ELSE IF rootGreater(rootAbs(relativeChange), <<2, 1>>) THEN "MODERATE"
    ELSE "WEAK"

\* a line of the printed report: what the line is about and the word on it
Line(line, value) == [line |-> line, value |-> value]

\* the lines the callback prints, from the local variables it ends with
printedReport(e) ==
    <<Line("DATASET OVERVIEW", ""), Line("SEN'S SLOPE ANALYSIS", ""),
      Line("CHANGE POINT DETECTION", "")>>
    \o (IF Len(e.changePoints) > 0
        THEN [k \in 1..Len(e.changePoints) |->
                 Line("change point", e.changePoints[k].direction)]
        ELSE <<Line("No significant change points detected", "")>>)
    \o <<Line("VARIABILITY ANALYSIS", ""), Line("ANOMALY DETECTION", "")>>
    \o (IF Len(e.anomalies) > 0
        THEN [k \in 1..Len(e.anomalies) |->
                 Line("anomaly", anomalyTag(e.anomalies[k]))]
        ELSE <<Line("No statistical anomalies detected", "")>>)
    \o <<Line("TEMPORAL PERSISTENCE", "")>>
    \o (IF e.n >= 3 THEN <<Line("Persistence level", e.persistence)>> ELSE <<>>)
    \o <<Line("CLIMATE CHANGE SIGNAL", "")>>
    \o (IF e.n >= 10
        THEN <<Line("Climate signal", climateSignal(e.relativeChange))>>
        ELSE <<>>)
    \o <<Line("END", "")>>

InsufficientReport == <<Line("Insufficient data for deep analysis", "")>>

\* the mutant of insufficient: five entries are too few as well
insufficient_lte(arr) == arr.null \/ Len(arr.pairs) <= 5

\* !arrays || arrays.length < 5
insufficient(arr) == arr.null \/ Len(arr.pairs) < 5

\* the mutant of deepAnalysis: with fewer than 10 years the callback stops
\* before the autocorrelation
deepAnalysis_stop(arr, rounded) ==
    LET e == anomalyBlock(
                 variabilityBlock(
                     changePointBlock(
                         sensSlopeBlock(datasetOverview(arr.pairs)))))
    IN  IF Len(arr.pairs) < 10 THEN e
        ELSE climateSignalBlock(autocorrelationBlock(e, rounded))

\* the six analyses in the order of the script
deepAnalysis(arr, rounded) ==
    climateSignalBlock(
        autocorrelationBlock(
            anomalyBlock(
                variabilityBlock(
                    changePointBlock(
                        sensSlopeBlock(datasetOverview(arr.pairs))))),
            rounded))

TrendIdle ==
    /\ arrays = [null |-> TRUE, pairs |-> <<>>]
    /\ meanRounded = FALSE
    /\ trendPc = "idle"
    /\ locals = NoLocals
    /\ printed = <<>>

(***************************************************************************)
(* SECTION 7b: the flag columns of the pixel-level export                  *)
(***************************************************************************)

\* the mutant of flag_bits: the masked flags are not divided by the mask
flag_bits_undivided(algorithm_flags) ==
    [flag_inland_water      |-> Rat(bitwiseAnd(algorithm_flags, 1), 1),
     flag_visible_fail      |-> Rat(bitwiseAnd(algorithm_flags, 2), 1),
     flag_ndsi_fail         |-> Rat(bitwiseAnd(algorithm_flags, 4), 1),
     flag_temp_height_fail  |-> Rat(bitwiseAnd(algorithm_flags, 8), 1),
     flag_swir_anomaly      |-> Rat(bitwiseAnd(algorithm_flags, 16), 1),
     flag_probably_cloudy   |-> Rat(bitwiseAnd(algorithm_flags, 32), 1),
     flag_probably_clear    |-> Rat(bitwiseAnd(algorithm_flags, 64), 1),
     flag_high_solar_zenith |-> Rat(bitwiseAnd(algorithm_flags, 128), 1)]

\* flag_bits of analyzePixelLevelData: algorithm_flags.bitwiseAnd(m).divide(m)
flag_bits(algorithm_flags) ==
    [flag_inland_water      |-> Rat(bitwiseAnd(algorithm_flags, 1), 1),
     flag_visible_fail      |-> Rat(bitwiseAnd(algorithm_flags, 2), 2),
     flag_ndsi_fail         |-> Rat(bitwiseAnd(algorithm_flags, 4), 4),
     flag_temp_height_fail  |-> Rat(bitwiseAnd(algorithm_flags, 8), 8),
     flag_swir_anomaly      |-> Rat(bitwiseAnd(algorithm_flags, 16), 16),
     flag_probably_cloudy   |-> Rat(bitwiseAnd(algorithm_flags, 32), 32),
     flag_probably_clear    |-> Rat(bitwiseAnd(algorithm_flags, 64), 64),
     flag_high_solar_zenith |-> Rat(bitwiseAnd(algorithm_flags, 128), 128)]

\* the bands of final_image that come from the two QA bands of img
final_image(img) ==
    [basic_qa           |-> img.basicQA,
     algorithm_flags    |-> img.algorithmFlags,
     flag_bits          |-> flag_bits(img.algorithmFlags),
     passes_standard_qa |-> IF createStandardQualityMask(img) THEN 1 ELSE 0]

\* the row before analyzePixelLevelData has run
NoPixelRow == final_image([basicQA |-> 0, algorithmFlags |-> 0])

PixelIdle ==
    /\ pixelImg = [basicQA |-> 0, algorithmFlags |-> 0]
    /\ pixelDone = FALSE
    /\ pixelRow = NoPixelRow

(***************************************************************************)
(* SECTION 7, inspector: the Map.onClick handler                           *)
(***************************************************************************)

\* a property of result.properties that may be missing
undefined == [undefined |-> TRUE, value |-> 0]
defined(v) == [undefined |-> FALSE, value |-> v]

flagMeta ==
    << [key |-> "inlandWater",       bit |-> 0, def |-> FALSE],
       [key |-> "visibleScreenFail", bit |-> 1, def |-> TRUE],
       [key |-> "ndsiScreenFail",    bit |-> 2, def |-> TRUE],
       [key |-> "tempHeightFail",    bit |-> 3, def |-> TRUE],
       [key |-> "swirAnomaly",       bit |-> 4, def |-> FALSE],
       [key |-> "probablyCloudy",    bit |-> 5, def |-> TRUE],
       [key |-> "probablyClear",     bit |-> 6, def |-> FALSE],
       [key |-> "highSolarZenith",   bit |-> 7, def |-> TRUE] >>

FlagKeys == {flagMeta[i].key : i \in 1..Len(flagMeta)}

\* the eight tests of passesFlags: the checkbox read and the mask of algFlags
passesFlagsTests ==
    << <<"inlandWater", 1>>, <<"visibleScreenFail", 2>>, <<"ndsiScreenFail", 4>>,
       <<"tempHeightFail", 8>>, <<"swirAnomaly", 16>>, <<"probablyCloudy", 32>>,
       <<"probablyClear", 64>>, <<"highSolarZenith", 128>> >>

\* algFlags & m as a condition
bitSet(algFlags, m) == bitwiseAnd(algFlags, m) # 0

\* the mutant of passesFlags: missing flags fail every checked test
passesFlags_strict(algFlags, checked) ==
    IF ~algFlags.undefined
    THEN \A i \in 1..Len(passesFlagsTests) :
             ~(passesFlagsTests[i][1] \in checked
                   /\ bitSet(algFlags.value, passesFlagsTests[i][2]))
    ELSE checked = {}

\* passesFlags: true unless algFlags is there and a checked test finds its bit
passesFlags(algFlags, checked) ==
    IF ~algFlags.undefined
    THEN \A i \in 1..Len(passesFlagsTests) :
             ~(passesFlagsTests[i][1] \in checked
                   /\ bitSet(algFlags.value, passesFlagsTests[i][2]))
    ELSE TRUE

\* passesBasicQA: a comparison with a missing basicQA is false
passesBasicQA(basicQA, basicQALevel) ==
    LET byLevel ==
            CASE basicQALevel = "best" -> ~basicQA.undefined /\ basicQA.value = 0
              [] basicQALevel = "good" -> ~basicQA.undefined /\ basicQA.value <= 1
              [] basicQALevel = "ok"   -> ~basicQA.undefined /\ basicQA.value <= 2
              [] basicQALevel = "all"  -> ~basicQA.undefined /\ basicQA.value <= 3
              [] OTHER                 -> FALSE
    IN  /\ byLevel
        /\ ~(~basicQA.undefined /\ basicQA.value = 211)
        /\ ~(~basicQA.undefined /\ basicQA.value = 239)

\* the recommendation printed after the decoded flags
recommendation(algFlags) ==
    LET criticalFlags == bitSet(algFlags, 2) \/ bitSet(algFlags, 4) \/ bitSet(algFlags, 32)
        importantFlags == bitSet(algFlags, 8) \/ bitSet(algFlags, 128)
        optionalFlags == bitSet(algFlags, 16) \/ bitSet(algFlags, 1)
        excellentConditions ==
            bitSet(algFlags, 64) /\ ~criticalFlags /\ ~importantFlags
    IN  IF criticalFlags THEN "CRITIQUE"
        ELSE IF excellentConditions THEN "EXCELLENT"
        ELSE IF importantFlags THEN "ACCEPTABLE"
        ELSE IF optionalFlags THEN "BON avec flags mineurs"
        ELSE "BON"

\* what the handler prints for a click of which the sample has properties:
\* the flags section, and the filter state when the glacier fraction of the
\* point comes back
onClick(props, fracResult, basicQALevel, checked) ==
    LET algFlags == props.NDSI_Snow_Cover_Algorithm_Flags_QA
        basicQA == props.NDSI_Snow_Cover_Basic_QA
    IN  [algorithmFlags |->
             IF ~algFlags.undefined THEN recommendation(algFlags.value)
             ELSE "No data",
         reported |-> fracResult,
         passesBasicQA |-> fracResult /\ passesBasicQA(basicQA, basicQALevel),
         passesFlags |-> fracResult /\ passesFlags(algFlags, checked),
         passe |-> IF ~fracResult THEN ""
                   ELSE IF passesBasicQA(basicQA, basicQALevel)
                           /\ passesFlags(algFlags, checked)
                   THEN "OUI" ELSE "NON"]

NoProps ==
    [NDSI_Snow_Cover_Basic_QA |-> undefined,
     NDSI_Snow_Cover_Algorithm_Flags_QA |-> undefined]

InspectIdle ==
    /\ clicked = [props |-> NoProps, fracResult |-> FALSE]
    /\ widgets = [basicQASelect |-> "good",
                  checked |-> {flagMeta[i].key : i \in {j \in 1..Len(flagMeta) : flagMeta[j].def}}]
    /\ inspectDone = FALSE
    /\ inspected = onClick(NoProps, FALSE, "good", {})

(***************************************************************************)
(* SECTION 7: the interactive interface                                    *)
(***************************************************************************)

\* the line of the script at which each function variable is assigned
assignedAt ==
    [loadBaseData |-> 736, updateFiltering |-> 771, updateQAFiltering |-> 918]

\* the value of a variable declared as `var f = function ...` when a line
\* of the script reads it: undefined above the assignment
valueAtLine(f, line) == IF line > assignedAt[f] THEN f ELSE "undefined"

\* the change handlers the widgets are given where they are built
onChange ==
    [basicQASelect         |-> valueAtLine("updateQAFiltering", 691),
     flagCheckboxes        |-> valueAtLine("updateQAFiltering", 711),
     ndsiSlider            |-> valueAtLine("updateFiltering", 968),
     glacierFractionSlider |-> valueAtLine("updateFiltering", 969),
     minPixelSlider        |-> valueAtLine("updateFiltering", 970),
     dateSlider            |-> "undefined"]

\* the glacier pixels of the image the interface shows: how many of each kind
UIRegion == [k \in Kinds |-> 4]

\* a map layer: its name and, for the albedo layer, its thresholds and range
Layer(name, ndsi, glacier, min, max, suffix) ==
    [name |-> name, ndsi |-> ndsi, glacier |-> glacier,
     min |-> min, max |-> max, suffix |-> suffix]

NamedLayer(name) == Layer(name, 0, 0, <<0, 1>>, <<0, 1>>, "")

InspectorLayers ==
    << NamedLayer("Fraction glacier (%)"),
       NamedLayer("Basic QA (0=Best, 1=Good, 2=OK, 3=Poor)"),
       NamedLayer("Algorithm Flags QA (0-255)"),
       NamedLayer("QA Composite (Click pour inspecter)"),
       NamedLayer("NDSI Snow Cover (0-100)") >>

\* the flags object updateFiltering and createCurrentQAMask build
flagConfig(checked) ==
    [excludeInlandWater       |-> "inlandWater" \in checked,
     excludeVisibleScreenFail |-> "visibleScreenFail" \in checked,
     excludeNDSIScreenFail    |-> "ndsiScreenFail" \in checked,
     excludeTempHeightFail    |-> "tempHeightFail" \in checked,
     excludeSWIRAnomaly       |-> "swirAnomaly" \in checked,
     excludeProbablyCloudy    |-> "probablyCloudy" \in checked,
     excludeProbablyClear     |-> "probablyClear" \in checked,
     excludeHighSolarZenith   |-> "highSolarZenith" \in checked]

createCurrentQAMask(o, basicLevel, checked) ==
    getBasicQAMask(o, basicLevel) /\ getAlgorithmFlagsMask(o, flagConfig(checked))

\* filtered_albedo of updateFiltering on image d, at each pixel kind
filtered_albedo_UI(d, ndsiThreshold, glacierThreshold, basicQALevel, checked) ==
    [k \in Kinds |->
        LET o == PixelKinds[k].obs[d]
            good_quality ==
                /\ getBasicQAMask(o, basicQALevel)
                /\ getAlgorithmFlagsMask(o, flagConfig(checked))
            high_ndsi == o.ndsi >= ndsiThreshold
            high_glacier_fraction == PixelKinds[k].frac >= glacierThreshold * 100
            valid_albedo == o.raw <= 100
        IN  updateMask(updateMask(updateMask(updateMask(
                Num(Rat(o.raw, 100)), good_quality), high_ndsi),
                high_glacier_fraction), valid_albedo)]

\* ee.Reducer.minMax of reduceRegion
reduceMinMax(rg, band) ==
    LET used == {k \in Kinds : ~band[k].null /\ rg[k] > 0}
    IN  IF used = {} THEN [min |-> Null, max |-> Null]
        ELSE [min |-> band[CHOOSE k \in used :
                         \A j \in used : RatLeq(band[k].value, band[j].value)],
              max |-> band[CHOOSE k \in used :
                         \A j \in used : RatLeq(band[j].value, band[k].value)]]

\* value || fallback: null and 0 give the fallback
orElse(x, fallback) == IF x.null \/ x.value[1] = 0 THEN fallback ELSE x.value

\* x.toFixed(3) of a number that is not negative, in thousandths
toFixed3(x) == (2 * x[1] * 1000 + x[2]) \div (2 * x[2])

NoRange == [min |-> Null, max |-> Null]
NoStats == [mean |-> Null, count |-> 0]

\* the local variables of a call of updateFiltering that its callbacks keep,
\* with the values the two reductions will give if they succeed
NoPass ==
    [id |-> 0, ndsiThreshold |-> 0, glacierThreshold |-> 0,
     minPixelThreshold |-> 0, albedoRange |-> NoRange, dayStats |-> NoStats]

\* a request to the server that has not come back
Request(kind, scope) == [kind |-> kind, scope |-> scope]

\* the text of a label: a name for the wording and the numbers put into it
Text(wording, numbers) == [wording |-> wording, numbers |-> numbers]

\* the mutant of clearLayers: the loop runs while a layer is left
RECURSIVE clearLayers_all(_)
clearLayers_all(layers) ==
    IF Len(layers) > 0
    THEN clearLayers_all(SubSeq(layers, 1, Len(layers) - 1))
    ELSE layers

\* while (layers.length() > 1) Map.remove(layers.get(layers.length() - 1))
RECURSIVE clearLayers(_)
clearLayers(layers) ==
    IF Len(layers) > 1
    THEN clearLayers(SubSeq(layers, 1, Len(layers) - 1))
    ELSE layers

\* updateFiltering up to its return: the labels, the layers and the two
\* requests; u is the state of the interface
updateFiltering(u) ==
    IF u.currentImage = 0 THEN u
    ELSE
    LET ndsiThreshold == u.ndsiSlider
        glacierThreshold == u.glacierFractionSlider
        minPixelThreshold == u.minPixelSlider
        filtered_albedo_band ==
            filtered_albedo_UI(u.currentImage, ndsiThreshold, glacierThreshold,
                               u.basicQASelect, u.checked)
        scope ==
            [id |-> u.pass.id + 1,
             ndsiThreshold |-> ndsiThreshold,
             glacierThreshold |-> glacierThreshold,
             minPixelThreshold |-> minPixelThreshold,
             albedoRange |-> reduceMinMax(UIRegion, filtered_albedo_band),
             dayStats |-> [mean |-> reduceMean(UIRegion, filtered_albedo_band),
                           count |-> reduceCount(UIRegion, filtered_albedo_band)]]
    IN  [u EXCEPT
            !.ndsiLabel = Text("NDSI Snow Cover threshold", <<ndsiThreshold>>),
            !.glacierFractionLabel =
                Text("Glacier fraction threshold", <<glacierThreshold>>),
            !.minPixelLabel =
                IF minPixelThreshold = 0
                THEN Text("Minimum pixels: OFF (no filter)", <<>>)
                ELSE Text("Minimum pixels", <<minPixelThreshold>>),
            !.layers = clearLayers(u.layers) \o InspectorLayers,
            !.pass = scope,
            !.pending = u.pending \cup {Request("albedoRange", scope),
                                        Request("dayStats", scope)}]

\* the success function given to albedoRange.evaluate
albedoRangeCallback(u, scope, range) ==
    LET minVal == orElse(range.min, <<2, 5>>)
        maxVal == orElse(range.max, <<9, 10>>)
    IN  [u EXCEPT !.layers =
            Append(@, Layer("Filtered Albedo", scope.ndsiThreshold,
                            scope.glacierThreshold, minVal, maxVal, ""))]

\* the second function given to albedoRange.evaluate
albedoRangeError(u, scope) ==
    [u EXCEPT
        !.console = @ \cup {Text("Error computing adaptive palette", <<>>)},
        !.layers =
            Append(@, Layer("Filtered Albedo", scope.ndsiThreshold,
                            scope.glacierThreshold, <<2, 5>>, <<9, 10>>,
                            " - Default"))]

\* the function given to dayStats.evaluate
dayStatsCallback(u, scope, stats) ==
    LET meanAlbedo == stats.mean
        pixelCount == stats.count
        minPixelThreshold == scope.minPixelThreshold
        pixelThresholdMet ==
            minPixelThreshold = 0 \/ pixelCount >= minPixelThreshold
        statsText ==
            IF ~meanAlbedo.null /\ pixelCount > 0 /\ pixelThresholdMet
            THEN Text("Mean albedo",
                      <<toFixed3(meanAlbedo.value), pixelCount,
                        scope.ndsiThreshold, scope.glacierThreshold,
                        minPixelThreshold>>)
            ELSE IF ~meanAlbedo.null /\ pixelCount > 0 /\ ~pixelThresholdMet
            THEN Text("Not enough qualified pixels",
                      <<pixelCount, minPixelThreshold>>)
            ELSE Text("No qualified pixels", <<>>)
    IN  [u EXCEPT !.statsLabel = statsText]

\* a callback that reads a property of its undefined argument
TypeError(u) == [u EXCEPT !.thrown = TRUE]

\* the two forms of evaluate: one function called with (success, failure),
\* or a success function and an error function
EvaluateForms == {"function(success, failure)", "success, error"}

\* a request comes back: done tells whether the reduction succeeded
evaluated(u, request, done, form) ==
    LET scope == request.scope
        v == [u EXCEPT !.pending = @ \ {request}]
    IN  CASE request.kind = "albedoRange" ->
                 IF done THEN albedoRangeCallback(v, scope, scope.albedoRange)
                 ELSE IF form = "success, error" THEN albedoRangeError(v, scope)
                 ELSE TypeError(v)
          [] request.kind = "dayStats" ->
                 IF done THEN dayStatsCallback(v, scope, scope.dayStats)
                 ELSE IF form = "success, error" THEN v
                 ELSE TypeError(v)
          [] request.kind = "retainedPixels" ->
                 LET total == RegionSize(UIRegion)
                     retained == scope.dayStats.count
                 IN  IF done /\ total # 0 /\ retained # 0
                     THEN [v EXCEPT !.qaStatsLabel =
                              Text("Rétention pixels QA",
                                   <<retained, total,
                                     (200 * retained + total) \div (2 * total)>>)]
                     ELSE [v EXCEPT !.qaStatsLabel =
                              Text("Rétention pixels QA: Calcul...", <<>>)]

basicLevelText ==
    [best |-> "Best only (0)", good |-> "Good+ (0-1)",
     ok |-> "OK+ (0-2)", all |-> "All levels (0-3)"]

\* updateQAFiltering: the label, the retention request, then updateFiltering
updateQAFiltering(u) ==
    LET labelled ==
            [u EXCEPT !.qaBasicLabel =
                Text("Niveau qualité de base", <<basicLevelText[u.basicQASelect]>>)]
        retained ==
            SeqSum([k \in Kinds |->
                IF createCurrentQAMask(PixelKinds[k].obs[
                       IF u.currentImage = 0 THEN 1 ELSE u.currentImage],
                       u.basicQASelect, u.checked)
                THEN UIRegion[k] ELSE 0])
        requested ==
            IF u.currentImage # 0
            THEN [labelled EXCEPT !.pending = @ \cup
                     {Request("retainedPixels",
                         [NoPass EXCEPT !.id = u.pass.id,
                                        !.dayStats = [mean |-> Null,
                                                      count |-> retained]])}]
            ELSE labelled
    IN  updateFiltering(requested)

\* loadBaseData: the date of the slider becomes the image shown
loadBaseData(u) ==
    updateFiltering(
        [u EXCEPT !.selectedDateLabel = Text("Date sélectionnée", <<u.dateSlider>>),
                  !.currentImage = u.dateSlider])

\* the mutant of exportParamsButton: the thresholds of the script are set
exportParamsButton_assign(u) ==
    [u EXCEPT
        !.console = @ \cup
            {Text("Optimal parameters found", <<>>)},
        !.globals = [NDSI_SNOW_THRESHOLD |-> u.ndsiSlider,
                     GLACIER_FRACTION_THRESHOLD |-> u.glacierFractionSlider,
                     MIN_PIXEL_THRESHOLD |-> u.minPixelSlider]]

\* the click handler of exportParamsButton: it prints the slider values
\* (the console keeps the heading of what was printed)
exportParamsButton(u) ==
    [u EXCEPT
        !.console = @ \cup
            {Text("Optimal parameters found", <<>>)}]

\* a widget calls the handler it was given
call(handler, u) ==
    CASE handler = "updateFiltering" -> updateFiltering(u)
      [] handler = "updateQAFiltering" -> updateQAFiltering(u)
      [] handler = "loadBaseData" -> loadBaseData(u)
      [] OTHER -> u

\* the thresholds and the QA configuration of an export
exportParameters ==
    [qaConfig |-> StandardQAConfig,
     ndsi_snow_threshold |-> NDSI_SNOW_THRESHOLD,
     glacier_fraction_threshold |-> GLACIER_FRACTION_THRESHOLD,
     min_pixel_threshold |-> MIN_PIXEL_THRESHOLD]

\* the interface when the script has built the widgets and added the mask
\* layer, before its call of loadBaseData
built ==
    [currentImage |-> 0,
     dateSlider |-> 1,
     ndsiSlider |-> NDSI_SNOW_THRESHOLD,
     glacierFractionSlider |-> GLACIER_FRACTION_THRESHOLD,
     minPixelSlider |-> MIN_PIXEL_THRESHOLD,
     basicQASelect |-> "good",
     checked |-> {flagMeta[i].key : i \in {j \in 1..Len(flagMeta) : flagMeta[j].def}},
     selectedDateLabel |-> Text("Selected date: 2020-07-15", <<>>),
     ndsiLabel |-> Text("NDSI Snow Cover threshold", <<NDSI_SNOW_THRESHOLD>>),
     glacierFractionLabel |->
         Text("Glacier fraction threshold", <<GLACIER_FRACTION_THRESHOLD>>),
     minPixelLabel |-> Text("Minimum pixels: OFF (no filter)", <<>>),
     statsLabel |-> Text("Statistics: Waiting...", <<>>),
     qaBasicLabel |-> Text("Basic quality level: Good+ (0-1)", <<>>),
     qaStatsLabel |-> Text("QA Retention: Calculating...", <<>>),
     layers |-> <<NamedLayer("Saskatchewan Glacier Mask")>>,
     pass |-> NoPass,
     pending |-> {},
     console |-> {},
     thrown |-> FALSE,
     globals |-> [NDSI_SNOW_THRESHOLD |-> NDSI_SNOW_THRESHOLD,
                  GLACIER_FRACTION_THRESHOLD |-> GLACIER_FRACTION_THRESHOLD,
                  MIN_PIXEL_THRESHOLD |-> MIN_PIXEL_THRESHOLD],
     exports |-> [annual |-> exportParameters,
                  daily |-> exportParameters,
                  pixel |-> exportParameters]]

UIIdle ==
    /\ ui = built
    /\ evaluateForm = "function(success, failure)"
    /\ uiFailures = 0

(***************************************************************************)
(* The quality-mask functions applied to an image                          *)
(***************************************************************************)

\* the values of NDSI_Snow_Cover_Basic_QA: the six documented codes and two
\* undocumented ones
BasicQAValues == {0, 1, 2, 3, 4, 211, 239, 255}

\* an image holding every combination of the two QA bands
QAImage == [basicQA : BasicQAValues, algorithmFlags : 0..255]

QAConfigs ==
    { [f \in FlagNames \cup {"basicLevel"} |->
          IF f = "basicLevel" THEN l ELSE f \in on] :
        l \in Levels, on \in SUBSET FlagNames }

QAIdle ==
    /\ qaOp = "none"
    /\ qaConfig = StandardQAConfig
    /\ qaMask = {}

\* the configuration object is the input; each function is applied to it once
InitQA ==
    /\ qaOp = "none"
    /\ qaConfig \in QAConfigs
    /\ qaMask = {}
    /\ FracIdle
    /\ AggIdle
    /\ SeriesIdle
    /\ TrendIdle
    /\ PixelIdle
    /\ InspectIdle
    /\ UIIdle

BasicQA ==
    /\ qaOp = "none"
    /\ qaOp' = "getBasicQAMask"
    /\ qaMask' = {img \in QAImage : getBasicQAMask(img, qaConfig.basicLevel)}
    /\ UNCHANGED <<qaConfig, fracVars, aggVars, seriesVars, trendVars, pixelVars, inspectVars, uiVars>>

AlgorithmFlags ==
    /\ qaOp = "none"
    /\ qaOp' = "getAlgorithmFlagsMask"
    /\ qaMask' = {img \in QAImage : getAlgorithmFlagsMask(img, qaConfig)}
    /\ UNCHANGED <<qaConfig, fracVars, aggVars, seriesVars, trendVars, pixelVars, inspectVars, uiVars>>

ComprehensiveQuality ==
    /\ qaOp = "none"
    /\ qaOp' = "createComprehensiveQualityMask"
    /\ qaMask' = {img \in QAImage : createComprehensiveQualityMask(img, qaConfig)}
    /\ UNCHANGED <<qaConfig, fracVars, aggVars, seriesVars, trendVars, pixelVars, inspectVars, uiVars>>

\* createStandardQualityMask builds its own configuration object
StandardQuality ==
    /\ qaOp = "none"
    /\ qaOp' = "createStandardQualityMask"
    /\ qaMask' = {img \in QAImage : createStandardQualityMask(img)}
    /\ qaConfig' = StandardQAConfig
    /\ UNCHANGED <<fracVars, aggVars, seriesVars, trendVars, pixelVars, inspectVars, uiVars>>

NextQA ==
    \/ BasicQA
    \/ AlgorithmFlags
    \/ ComprehensiveQuality
    \/ StandardQuality

SpecQA == InitQA /\ [][NextQA]_vars

(***************************************************************************)
(* The two classifiers applied to a pixel                                  *)
(***************************************************************************)

InitFrac ==
    /\ STATIC_GLACIER_FRACTION \in FractionValues
    /\ fracDone = {}
    /\ masks = NoMasks
    /\ pixelClass = NoPixelClass
    /\ QAIdle
    /\ AggIdle
    /\ SeriesIdle
    /\ TrendIdle
    /\ PixelIdle
    /\ InspectIdle
    /\ UIIdle

FractionMasks ==
    /\ "createFractionMasks" \notin fracDone
    /\ fracDone' = fracDone \cup {"createFractionMasks"}
    /\ masks' = createFractionMasks(STATIC_GLACIER_FRACTION, FRACTION_THRESHOLDS)
    /\ UNCHANGED <<STATIC_GLACIER_FRACTION, pixelClass, qaVars, aggVars, seriesVars, trendVars, pixelVars, inspectVars, uiVars>>

PixelLevelClass ==
    /\ "analyzePixelLevelData" \notin fracDone
    /\ fracDone' = fracDone \cup {"analyzePixelLevelData"}
    /\ pixelClass' =
          LET code == glacier_class_code(STATIC_GLACIER_FRACTION)
          IN  [glacier_class_code |-> code,
               glacier_class      |-> class_text(code),
               sampled            |-> glacier_mask_sample(STATIC_GLACIER_FRACTION)]
    /\ UNCHANGED <<STATIC_GLACIER_FRACTION, masks, qaVars, aggVars, seriesVars, trendVars, pixelVars, inspectVars, uiVars>>

NextFrac ==
    \/ FractionMasks
    \/ PixelLevelClass

SpecFrac == InitFrac /\ [][NextFrac]_vars

(***************************************************************************)
(* The aggregations applied to a region                                    *)
(***************************************************************************)

InitAgg ==
    /\ AggIdle
    /\ QAIdle
    /\ FracIdle
    /\ SeriesIdle
    /\ TrendIdle
    /\ PixelIdle
    /\ InspectIdle
    /\ UIIdle

\* the region is the input: one more pixel of kind k lies in glacier_geometry
AddPixel(k) ==
    /\ aggOp = "load"
    /\ RegionSize(region) < MaxPixels
    /\ region' = [region EXCEPT ![k] = @ + 1]
    /\ UNCHANGED <<aggOp, dailyRec, annualRec, compareRec, qaVars, fracVars, seriesVars, trendVars, pixelVars, inspectVars, uiVars>>

AnalyzeDaily(d) ==
    /\ aggOp = "load"
    /\ aggOp' = "daily"
    /\ dailyRec' = analyzeDailyAlbedoHighSnowCoverOptimized(region, d)
    /\ UNCHANGED <<region, annualRec, compareRec, qaVars, fracVars, seriesVars, trendVars, pixelVars, inspectVars, uiVars>>

CalculateAnnual ==
    /\ aggOp = "load"
    /\ aggOp' = "annual"
    /\ annualRec' = calculateAnnualAlbedoHighSnowCoverOptimized(region, 2010)
    /\ UNCHANGED <<region, dailyRec, compareRec, qaVars, fracVars, seriesVars, trendVars, pixelVars, inspectVars, uiVars>>

CompareWithUnfiltered(d) ==
    /\ aggOp = "load"
    /\ aggOp' = "compare"
    /\ compareRec' = compareWithUnfilteredAlbedoSafe(region, d)
    /\ UNCHANGED <<region, dailyRec, annualRec, qaVars, fracVars, seriesVars, trendVars, pixelVars, inspectVars, uiVars>>

NextAgg ==
    \/ \E k \in Kinds : AddPixel(k)
    \/ \E d \in Images : AnalyzeDaily(d)
    \/ CalculateAnnual
    \/ \E d \in Images : CompareWithUnfiltered(d)

SpecAgg == InitAgg /\ [][NextAgg]_vars

(***************************************************************************)
(* The script from the annual statistics to the trend input                *)
(***************************************************************************)

InitSeries ==
    /\ seasons \in [1..NYears -> YearRegions]
    /\ seriesPc = "start"
    /\ annual_albedo_high_snow = <<>>
    /\ dataArrays = <<>>
    /\ QAIdle
    /\ FracIdle
    /\ AggIdle
    /\ TrendIdle
    /\ PixelIdle
    /\ InspectIdle
    /\ UIIdle

\* annual_albedo_high_snow = STUDY_YEARS.map(calculateAnnual...)
ComputeAnnualStatistics ==
    /\ seriesPc = "start"
    /\ seriesPc' = "annual"
    /\ annual_albedo_high_snow' =
          [i \in 1..Len(seasons) |->
              calculateAnnualAlbedoHighSnowCoverOptimized(seasons[i], STUDY_YEARS[i])]
    /\ UNCHANGED <<seasons, dataArrays, qaVars, fracVars, aggVars, trendVars, pixelVars, inspectVars, uiVars>>

\* pureIceData and dataArrays
ExtractDataArrays ==
    /\ seriesPc = "annual"
    /\ seriesPc' = "arrays"
    /\ dataArrays' =
          LET pure == pureIceData(annual_albedo_high_snow)
          IN  zip(aggregate_array_year(pure), aggregate_array_mean(pure))
    /\ UNCHANGED <<seasons, annual_albedo_high_snow, qaVars, fracVars, aggVars, trendVars, pixelVars, inspectVars, uiVars>>

NextSeries ==
    \/ ComputeAnnualStatistics
    \/ ExtractDataArrays

SpecSeries == InitSeries /\ [][NextSeries]_vars

(***************************************************************************)
(* The deep statistical analysis applied to a year series                  *)
(***************************************************************************)

\* the longest year series of the model
MaxSeries == 11

\* the longest series of which every value is drawn freely from three levels
GenericLen == 7

\* the albedo means of the freely drawn series, in hundredths
AlbedoLevels == {60, 63, 64}

\* the years that have a sufficient mean: all of them, or all but three
EveryYear == [i \in 1..15 |-> i]

YearChoices == {EveryYear, <<1, 2, 4, 5, 8, 9, 10, 11, 12, 13, 14, 15>>}

\* the slopes of the linear series, per year
LinearSlopes == {<<0 - 1, 50>>, <<0 - 1, 100>>, <<1, 200>>, <<3, 200>>}

ScenarioValues == <<70, 69, 68, 66, 65, 63, 62, 60, 59, 58>>

\* the values of a series of n years: drawn freely (from two levels, and
\* with every year present, when the series is long), or two levels with
\* one step, or a line, or the ten values of the documented scenario
SeriesValues(n, ys) ==
    (IF n <= GenericLen
     THEN { [i \in 1..n |-> Rat(f[i], 100)] : f \in [1..n -> AlbedoLevels] }
     ELSE IF ys = EveryYear
     THEN { [i \in 1..n |-> Rat(f[i], 100)] : f \in [1..n -> {60, 64}] }
     ELSE {})
    \cup { [i \in 1..n |-> Rat(IF i <= k THEN lh[1] ELSE lh[2], 100)] :
              k \in 1..(n - 1), lh \in {<<60, 63>>, <<63, 60>>} }
    \cup { [i \in 1..n |-> plus(<<7, 10>>, times(b, <<STUDY_YEARS[ys[i]] - 2010, 1>>))] :
              b \in LinearSlopes }
    \cup (IF n = Len(ScenarioValues)
          THEN {[i \in 1..n |-> Rat(ScenarioValues[i], 100)]} ELSE {})

TrendArrays ==
    {[null |-> TRUE, pairs |-> <<>>]}
    \cup UNION { UNION { { [null |-> FALSE,
                            pairs |-> [i \in 1..n |-> <<STUDY_YEARS[ys[i]], v[i]>>]] :
                              v \in SeriesValues(n, ys) } :
                          ys \in YearChoices } :
                 n \in 0..MaxSeries }

\* whether a run of the series that the autocorrelation takes a mean of is
\* constant, so that the rounding of the mean shows
hasConstantRun(arr) ==
    LET v == [i \in 1..Len(arr.pairs) |-> arr.pairs[i][2]]
    IN  /\ Len(v) >= 3
        /\ \/ constantRun(slice(v, 0, Len(v) - 1))
           \/ constantRun(slice(v, 1, Len(v)))

InitTrend ==
    /\ arrays \in TrendArrays
    /\ meanRounded \in (IF hasConstantRun(arrays) THEN BOOLEAN ELSE {FALSE})
    /\ trendPc = "evaluate"
    /\ locals = NoLocals
    /\ printed = <<>>
    /\ QAIdle
    /\ FracIdle
    /\ AggIdle
    /\ SeriesIdle
    /\ PixelIdle
    /\ InspectIdle
    /\ UIIdle

\* the callback returns at the guard
InsufficientData ==
    /\ trendPc = "evaluate"
    /\ insufficient(arrays)
    /\ trendPc' = "returned"
    /\ printed' = InsufficientReport
    /\ UNCHANGED <<arrays, meanRounded, locals, qaVars, fracVars, aggVars, seriesVars, pixelVars, inspectVars, uiVars>>

\* the callback runs to its end
DeepAnalysis ==
    /\ trendPc = "evaluate"
    /\ ~insufficient(arrays)
    /\ trendPc' = "returned"
    /\ locals' = deepAnalysis(arrays, meanRounded)
    /\ printed' = printedReport(locals')
    /\ UNCHANGED <<arrays, meanRounded, qaVars, fracVars, aggVars, seriesVars, pixelVars, inspectVars, uiVars>>

NextTrend ==
    \/ InsufficientData
    \/ DeepAnalysis

SpecTrend == InitTrend /\ [][NextTrend]_vars

(***************************************************************************)
(* analyzePixelLevelData applied to the QA bands of a pixel                *)
(***************************************************************************)

InitPixel ==
    /\ pixelImg \in QAImage
    /\ pixelDone = FALSE
    /\ pixelRow = NoPixelRow
    /\ QAIdle
    /\ FracIdle
    /\ AggIdle
    /\ SeriesIdle
    /\ TrendIdle
    /\ InspectIdle
    /\ UIIdle

AnalyzePixelLevelData ==
    /\ ~pixelDone
    /\ pixelDone' = TRUE
    /\ pixelRow' = final_image(pixelImg)
    /\ UNCHANGED <<pixelImg, qaVars, fracVars, aggVars, seriesVars, trendVars, inspectVars, uiVars>>

NextPixel == AnalyzePixelLevelData

SpecPixel == InitPixel /\ [][NextPixel]_vars

(***************************************************************************)
(* The inspector applied to a clicked point                                *)
(***************************************************************************)

\* the algorithm flags of the clicked points
InspectFlags == {0, 32, 255}

PropsValues(S) == {undefined} \cup {defined(v) : v \in S}

InitInspect ==
    /\ clicked \in [props : [NDSI_Snow_Cover_Basic_QA : PropsValues(BasicQAValues),
                             NDSI_Snow_Cover_Algorithm_Flags_QA : PropsValues(InspectFlags)],
                    fracResult : BOOLEAN]
    /\ widgets \in [basicQASelect : LevelNames, checked : SUBSET FlagKeys]
    /\ inspectDone = FALSE
    /\ inspected = onClick(NoProps, FALSE, "good", {})
    /\ QAIdle
    /\ FracIdle
    /\ AggIdle
    /\ SeriesIdle
    /\ TrendIdle
    /\ PixelIdle
    /\ UIIdle

MapClick ==
    /\ ~inspectDone
    /\ inspectDone' = TRUE
    /\ inspected' = onClick(clicked.props, clicked.fracResult,
                            widgets.basicQASelect, widgets.checked)
    /\ UNCHANGED <<clicked, widgets, qaVars, fracVars, aggVars, seriesVars, trendVars, pixelVars, uiVars>>

NextInspect == MapClick

SpecInspect == InitInspect /\ [][NextInspect]_vars

(***************************************************************************)
(* The interface in use: the user moves the controls and presses the       *)
(* buttons, and the requests to the server come back one at a time, in any *)
(* order, each with a result or with a failure.                            *)
(***************************************************************************)

\* how many passes of updateFiltering, the one of the script included, and
\* how many failed requests, a run has
MaxPasses == 2
MaxFailures == 1

\* how many requests may be out when the user starts another pass
MaxPending == 1

\* the positions the sliders are moved to
SliderValues ==
    [ndsiSlider |-> {0, 60},
     glacierFractionSlider |-> {50, 75},
     minPixelSlider |-> {0, 10}]

\* the basic QA levels that are picked and the checkboxes that are toggled
PickedLevels == {"good", "best"}
ToggledFlags == {"probablyCloudy"}

InitUI ==
    /\ ui = loadBaseData(built)
    /\ evaluateForm \in EvaluateForms
    /\ uiFailures = 0
    /\ QAIdle /\ FracIdle /\ AggIdle /\ SeriesIdle /\ TrendIdle
    /\ PixelIdle /\ InspectIdle

\* the user may start another pass
Quiet == ui.pass.id < MaxPasses /\ Cardinality(ui.pending) <= MaxPending

UIFrame ==
    UNCHANGED <<evaluateForm, uiFailures, qaVars, fracVars, aggVars, seriesVars,
                trendVars, pixelVars, inspectVars>>

\* the user moves slider w to v
SliderChanged(w, v) ==
    /\ Quiet
    /\ v # ui[w]
    /\ ui' = call(onChange[w], [ui EXCEPT ![w] = v])
    /\ UIFrame

\* the user picks another basic QA level
SelectChanged(level) ==
    /\ level # ui.basicQASelect
    /\ ui' = call(onChange.basicQASelect, [ui EXCEPT !.basicQASelect = level])
    /\ UIFrame

\* the user ticks or unticks the checkbox of a flag
CheckboxChanged(key) ==
    /\ ui' = call(onChange.flagCheckboxes,
                  [ui EXCEPT !.checked = IF key \in @ THEN @ \ {key}
                                         ELSE @ \cup {key}])
    /\ UIFrame

\* the user picks date d and presses Load
LoadClicked(d) ==
    /\ Quiet
    /\ ui' = loadBaseData(call(onChange.dateSlider, [ui EXCEPT !.dateSlider = d]))
    /\ UIFrame

\* the user presses Reload
ReloadClicked ==
    /\ Quiet
    /\ ui' = updateFiltering(ui)
    /\ UIFrame

\* the user presses the button that prints the parameters
ExportParamsClicked ==
    /\ ui' = exportParamsButton(ui)
    /\ UIFrame

\* a request comes back from the server
Evaluated(request, done) ==
    /\ request \in ui.pending
    /\ done \/ uiFailures < MaxFailures
    /\ ui' = evaluated(ui, request, done, evaluateForm)
    /\ uiFailures' = IF done THEN uiFailures ELSE uiFailures + 1
    /\ UNCHANGED <<evaluateForm, qaVars, fracVars, aggVars,
                   seriesVars, trendVars, pixelVars, inspectVars>>

NextUI ==
    \/ \E w \in DOMAIN SliderValues : \E v \in SliderValues[w] : SliderChanged(w, v)
    \/ \E level \in PickedLevels : SelectChanged(level)
    \/ \E key \in ToggledFlags : CheckboxChanged(key)
    \/ \E d \in Images : LoadClicked(d)
    \/ ReloadClicked
    \/ ExportParamsClicked
    \/ \E request \in ui.pending : \E done \in BOOLEAN : Evaluated(request, done)

SpecUI == InitUI /\ [][NextUI]_vars

(***************************************************************************)
(* Claims about the quality masks                                          *)
(***************************************************************************)

ceiling(level) ==
    CASE level = "best" -> 0
      [] level = "good" -> 1
      [] level = "ok"   -> 2
      [] level = "all"  -> 3

\* bit k of the 8-bit value a
BitSet(a, k) == (a \div (2 ^ k)) % 2 = 1

\* the exclusion toggle of each bit 0..7, in the order of the flag columns
ToggleOfBit ==
    << "excludeInlandWater", "excludeVisibleScreenFail", "excludeNDSIScreenFail",
       "excludeTempHeightFail", "excludeSWIRAnomaly", "excludeProbablyCloudy",
       "excludeProbablyClear", "excludeHighSolarZenith" >>

BasicGateAccepts(img, level) ==
    IF img.basicQA \in {211, 239} THEN FALSE
    ELSE img.basicQA <= ceiling(level)

FlagGateRejects(img, cfg) ==
    \E k \in 0..7 : cfg[ToggleOfBit[k + 1]] /\ BitSet(img.algorithmFlags, k)

\* C1: for every basicQA and every level in {best, good, ok, all} the basic
\* gate rejects night (211) and ocean (239) whatever the level and the flags,
\* and otherwise accepts iff basicQA <= ceiling(level).
C1_BasicQAGate ==
    (qaOp = "getBasicQAMask" /\ qaConfig.basicLevel \in LevelNames) =>
        \A img \in QAImage :
            (img \in qaMask) <=> BasicGateAccepts(img, qaConfig.basicLevel)

C1_Witness ==
    /\ qaOp = "getBasicQAMask"
    /\ qaConfig.basicLevel = "ok"
    /\ [basicQA |-> 2, algorithmFlags |-> 255] \in qaMask
    /\ [basicQA |-> 3, algorithmFlags |-> 0] \notin qaMask
    /\ [basicQA |-> 211, algorithmFlags |-> 0] \notin qaMask

\* C2: the flag gate rejects iff some bit 0..7 is set whose toggle is on; the
\* final accept is the AND of the basic gate and the flag gate; with all 8
\* toggles off the accept does not depend on algorithmFlags.
C2_FlagGateAndFinal ==
    /\ qaOp = "getAlgorithmFlagsMask" =>
           \A img \in QAImage :
               (img \notin qaMask) <=> FlagGateRejects(img, qaConfig)
    /\ (qaOp = "createComprehensiveQualityMask"
           /\ qaConfig.basicLevel \in LevelNames) =>
           /\ \A img \in QAImage :
                  (img \in qaMask) <=>
                      (BasicGateAccepts(img, qaConfig.basicLevel)
                          /\ ~FlagGateRejects(img, qaConfig))
           /\ (\A f \in FlagNames : ~qaConfig[f]) =>
                  \A img \in QAImage :
                      (img \in qaMask) <=>
                          ([img EXCEPT !.algorithmFlags = 0] \in qaMask)

C2_Witness ==
    /\ qaOp = "createComprehensiveQualityMask"
    /\ qaConfig.basicLevel = "all"
    /\ qaConfig.excludeHighSolarZenith
    /\ ~qaConfig.excludeInlandWater
    /\ [basicQA |-> 3, algorithmFlags |-> 1] \in qaMask
    /\ [basicQA |-> 3, algorithmFlags |-> 128] \notin qaMask

\* C3: under the standard configuration a pixel is accepted iff basicQA is 0
\* or 1 and none of bits 0,1,2,3,4,5,7 is set; bit 6 never changes the
\* result; basicQA = 1 with algorithmFlags = 32 is rejected.
C3_StandardQA ==
    qaOp = "createStandardQualityMask" =>
        /\ \A img \in QAImage :
               (img \in qaMask) <=>
                   (img.basicQA \in {0, 1}
                       /\ \A k \in {0, 1, 2, 3, 4, 5, 7} :
                              ~BitSet(img.algorithmFlags, k))
        /\ \A img \in QAImage :
               img.algorithmFlags < 64 =>
                   ((img \in qaMask) <=>
                       ([img EXCEPT !.algorithmFlags = @ + 64] \in qaMask))
        /\ [basicQA |-> 1, algorithmFlags |-> 32] \notin qaMask

C3_Witness ==
    /\ qaOp = "createStandardQualityMask"
    /\ [basicQA |-> 1, algorithmFlags |-> 64] \in qaMask
    /\ [basicQA |-> 1, algorithmFlags |-> 32] \notin qaMask
    /\ [basicQA |-> 2, algorithmFlags |-> 0] \notin qaMask

(***************************************************************************)
(* Claims about the fraction classes                                       *)
(***************************************************************************)

\* the class 1..5 of a fraction by the intervals [0,0.25), [0.25,0.50),
\* [0.50,0.75), [0.75,0.90), [0.90,1.0]
ClassOfInterval(f) ==
    IF f < 2500 THEN 1
    ELSE IF f < 5000 THEN 2
    ELSE IF f < 7500 THEN 3
    ELSE IF f < 9000 THEN 4
    ELSE 5

ClassTexts == <<"0-25%", "25-50%", "50-75%", "75-90%", "90-100%">>

\* the classes whose mask is true at the pixel
TrueMasks == {i \in 1..5 : masks[FRACTION_CLASS_NAMES[i]]}

InUnitInterval == STATIC_GLACIER_FRACTION >= 0 /\ STATIC_GLACIER_FRACTION <= 10000

MasksDone == "createFractionMasks" \in fracDone
PixelDone == "analyzePixelLevelData" \in fracDone

\* C4 as stated: for every fraction in [0,1], 0 and 1 included, exactly one of
\* the five masks is true and glacier_class_code is the one class of 1..5
\* given by the intervals.
C4_Original ==
    InUnitInterval =>
        /\ MasksDone => TrueMasks = {ClassOfInterval(STATIC_GLACIER_FRACTION)}
        /\ PixelDone =>
               pixelClass.glacier_class_code = ClassOfInterval(STATIC_GLACIER_FRACTION)

\* C4 as amended: for every fraction in (0,1] exactly one of the five masks
\* is true, the one of its interval, and for the fraction 0 none is;
\* glacier_class_code is the one class of 1..5 given by the intervals for
\* every fraction in [0,1], 0 included.
C4_TotalAboveZero ==
    InUnitInterval =>
        /\ MasksDone =>
               TrueMasks = IF STATIC_GLACIER_FRACTION = 0 THEN {}
                           ELSE {ClassOfInterval(STATIC_GLACIER_FRACTION)}
        /\ PixelDone =>
               /\ pixelClass.glacier_class_code \in 1..5
               /\ pixelClass.glacier_class_code =
                      ClassOfInterval(STATIC_GLACIER_FRACTION)

C4_Witness ==
    /\ STATIC_GLACIER_FRACTION = 10000
    /\ MasksDone /\ PixelDone
    /\ TrueMasks = {5}
    /\ pixelClass.glacier_class_code = 5

\* C5: 0.25 is class 2, 0.50 class 3, 0.75 class 4, 0.8999 class 4 and 0.90
\* class 5, in both classifiers, and no boundary value is in two classes.
C5_Boundaries ==
    \A b \in {<<2500, 2>>, <<5000, 3>>, <<7500, 4>>, <<8999, 4>>, <<9000, 5>>} :
        STATIC_GLACIER_FRACTION = b[1] =>
            /\ MasksDone => TrueMasks = {b[2]}
            /\ PixelDone =>
                   /\ pixelClass.glacier_class_code = b[2]
                   /\ pixelClass.glacier_class = ClassTexts[b[2]]

C5_Witness ==
    /\ STATIC_GLACIER_FRACTION = 2500
    /\ MasksDone /\ PixelDone
    /\ masks["glacier_25_50pct"] /\ ~masks["glacier_0_25pct"]
    /\ pixelClass.glacier_class = "25-50%"

\* C6 as stated: a fraction outside [0,1] is never assigned to one of the
\* five classes, by either classifier.
C6_OutOfRangeRejected ==
    ~InUnitInterval =>
        /\ MasksDone => TrueMasks = {}
        /\ PixelDone =>
               /\ pixelClass.glacier_class_code \notin 1..5
               /\ \A i \in 1..5 : pixelClass.glacier_class # ClassTexts[i]

(***************************************************************************)
(* Claims about the aggregation                                            *)
(***************************************************************************)

\* the standard QA accept as the specification states it
StandardAccept(o) ==
    /\ o.basicQA \in {0, 1}
    /\ \A b \in {0, 1, 2, 3, 4, 5, 7} : ~BitSet(o.algorithmFlags, b)

\* the filter of C7 as stated, and with the glacier-fraction threshold
FilterAsStated(o) ==
    StandardAccept(o) /\ o.ndsi >= NDSI_SNOW_THRESHOLD /\ o.raw <= 100

FilterWithFraction(o, frac) ==
    FilterAsStated(o) /\ frac * 100 >= GLACIER_FRACTION_THRESHOLD * 10000

\* the images in which a pixel of kind k passes either filter
PassingAsStated(k) == {d \in Images : FilterAsStated(PixelKinds[k].obs[d])}
Passing(k) ==
    {d \in Images : FilterWithFraction(PixelKinds[k].obs[d], PixelKinds[k].frac)}

\* the kinds of pixel of fraction class c
KindsOfClass(c) == {k \in Kinds : ClassOfInterval(PixelKinds[k].frac) = c}

\* the number of pixels of the region that are of a kind in K
PixelsOf(K) == SeqSum([k \in Kinds |-> IF k \in K THEN region[k] ELSE 0])

\* 0 <= x <= 1 for a number or null
InUnitRange(x) == x.null \/ (x.value[1] >= 0 /\ x.value[1] <= x.value[2])

\* C7 as stated: an observation contributes to the statistics of its class
\* iff it passes the standard QA and ndsi >= threshold and raw <= 100: the
\* daily class count is the number of such pixels of the class, the annual
\* class count the number of pixels of the class with such an observation.
C7_Original ==
    /\ aggOp = "daily" =>
          \A c \in 1..5 :
              dailyRec.class[c].count =
                  PixelsOf({k \in KindsOfClass(c) : dailyRec.date \in PassingAsStated(k)})
    /\ aggOp = "annual" =>
          \A c \in 1..5 :
              annualRec.class[c].count =
                  PixelsOf({k \in KindsOfClass(c) : PassingAsStated(k) # {}})

\* C7 as amended: an observation contributes iff it passes the standard QA and
\* ndsi >= threshold and raw <= 100 and the glacier fraction of its pixel is
\* >= GLACIER_FRACTION_THRESHOLD / 100; an observation with raw > 100 never
\* contributes, and every reported mean lies in [0,1].
C7_FilterWithFraction ==
    /\ aggOp = "daily" =>
          \A c \in 1..5 :
              /\ dailyRec.class[c].count =
                     PixelsOf({k \in KindsOfClass(c) : dailyRec.date \in Passing(k)})
              /\ InUnitRange(dailyRec.class[c].mean)
              /\ InUnitRange(dailyRec.class[c].spread)
    /\ aggOp = "annual" =>
          \A c \in 1..5 :
              /\ annualRec.class[c].count =
                     PixelsOf({k \in KindsOfClass(c) : Passing(k) # {}})
              /\ InUnitRange(annualRec.class[c].mean)

C7_Witness ==
    /\ aggOp = "daily"
    /\ dailyRec.date = 1
    /\ region[3] > 0 /\ region[5] > 0 /\ region[6] > 0
    /\ region[1] > 0 /\ region[2] > 0
    /\ dailyRec.class[5].count = region[1] + region[2]
    /\ dailyRec.class[2].count = 0

\* C8: in every annual and daily record and for every class, sufficient_pixels
\* is true iff count >= MIN_PIXEL_THRESHOLD; when it is false mean and stdDev
\* (annual) or mean and median (daily) are null, and count is still the count.
C8_Sufficiency ==
    /\ aggOp = "daily" =>
          \A c \in 1..5 :
              LET r == dailyRec.class[c]
              IN  /\ r.sufficient_pixels <=> r.count >= MIN_PIXEL_THRESHOLD
                  /\ ~r.sufficient_pixels => r.mean.null /\ r.spread.null
                  /\ r.count =
                         PixelsOf({k \in KindsOfClass(c) : dailyRec.date \in Passing(k)})
    /\ aggOp = "annual" =>
          \A c \in 1..5 :
              LET r == annualRec.class[c]
              IN  /\ r.sufficient_pixels <=> r.count >= MIN_PIXEL_THRESHOLD
                  /\ ~r.sufficient_pixels => r.mean.null /\ r.spread.null
                  /\ r.count = PixelsOf({k \in KindsOfClass(c) : Passing(k) # {}})

C8_Witness ==
    /\ aggOp = "annual"
    /\ annualRec.class[5].count = 8
    /\ ~annualRec.class[5].sufficient_pixels
    /\ annualRec.class[5].mean.null
    /\ annualRec.class[5].spread.null

\* the sum of the raw albedo of a pixel of kind k over the images in D
RawSum(k, D) == SeqSum([d \in Images |-> IF d \in D THEN PixelKinds[k].obs[d].raw ELSE 0])

\* the number and the raw sum of the observations of (year, class c) that
\* passed the filter
ObservationsOf(c) == SeqSum([k \in Kinds |->
    IF k \in KindsOfClass(c) THEN region[k] * Cardinality(Passing(k)) ELSE 0])
ObservationRawSum(c) == SeqSum([k \in Kinds |->
    IF k \in KindsOfClass(c) THEN region[k] * RawSum(k, Passing(k)) ELSE 0])

\* mean = (rawSum / 100) / n, for a number mean
IsMeanOf(mean, rawSum, n) ==
    ~mean.null /\ mean.value[1] * 100 * n = mean.value[2] * rawSum

\* the daily half of C9: null below minPixels, else the arithmetic mean of
\* raw/100 over the observations that passed the filter, which count counts
C9_Daily ==
    aggOp = "daily" =>
        \A c \in 1..5 :
            LET r == dailyRec.class[c]
                passed == {k \in KindsOfClass(c) : dailyRec.date \in Passing(k)}
            IN  /\ r.count = PixelsOf(passed)
                /\ r.count < MIN_PIXEL_THRESHOLD => r.mean.null
                /\ r.count >= MIN_PIXEL_THRESHOLD =>
                       IsMeanOf(r.mean,
                           SeqSum([k \in Kinds |-> IF k \in passed
                               THEN region[k] * PixelKinds[k].obs[dailyRec.date].raw
                               ELSE 0]),
                           r.count)

\* C9 as stated: in the annual aggregation too the mean is null below
\* minPixels and else the arithmetic mean of raw/100 over the observations of
\* the group that passed the filter.
C9_Original ==
    /\ C9_Daily
    /\ aggOp = "annual" =>
          \A c \in 1..5 :
              LET r == annualRec.class[c]
              IN  /\ r.count < MIN_PIXEL_THRESHOLD => r.mean.null
                  /\ r.count >= MIN_PIXEL_THRESHOLD =>
                         IsMeanOf(r.mean, ObservationRawSum(c), ObservationsOf(c))

RECURSIVE Factorial(_)
Factorial(n) == IF n = 0 THEN 1 ELSE n * Factorial(n - 1)

\* a common multiple of the numbers of passing images a pixel can have
ImagesMultiple == Factorial(Cardinality(Images))

\* C9 as amended: daily as stated; in the annual aggregation count is the
\* number of pixels of the class with at least one observation of the year
\* that passed the filter, the mean is null when count < minPixels, and else
\* it is the arithmetic mean, over those pixels, of each pixel's own mean of
\* raw/100 over its observations of the year that passed the filter.
C9_MeanOfPixelMeans ==
    /\ C9_Daily
    /\ aggOp = "annual" =>
          \A c \in 1..5 :
              LET r == annualRec.class[c]
                  seen == {k \in KindsOfClass(c) : Passing(k) # {}}
                  \* the sum of the pixel means, times 100 * ImagesMultiple
                  scaledSum == SeqSum([k \in Kinds |-> IF k \in seen
                      THEN region[k] * RawSum(k, Passing(k))
                               * (ImagesMultiple \div Cardinality(Passing(k)))
                      ELSE 0])
              IN  /\ r.count = PixelsOf(seen)
                  /\ r.count < MIN_PIXEL_THRESHOLD => r.mean.null
                  /\ r.count >= MIN_PIXEL_THRESHOLD =>
                         IsMeanOf(r.mean, scaledSum, ImagesMultiple * r.count)

C9_Witness ==
    /\ aggOp = "annual"
    /\ region[1] > 0 /\ region[2] > 0
    /\ annualRec.class[5].count >= MIN_PIXEL_THRESHOLD
    /\ annualRec.class[5].count < ObservationsOf(5)
    /\ ~annualRec.class[5].mean.null

(***************************************************************************)
(* Claims about the year series                                            *)
(***************************************************************************)

\* the years of the series
SeriesYears == {dataArrays[i][1] : i \in 1..Len(dataArrays)}

\* C10: the year series is ordered by strictly increasing year; it holds a
\* year iff the 90-100% class of that year's annual record has sufficient
\* pixels, with that record's mean; no null value is in the series.
C10_YearSeries ==
    seriesPc = "arrays" =>
        /\ \A i, j \in 1..Len(dataArrays) :
               i < j => dataArrays[i][1] < dataArrays[j][1]
        /\ \A i \in 1..Len(annual_albedo_high_snow) :
               LET f == annual_albedo_high_snow[i]
               IN  /\ f.year \in SeriesYears <=> f.class[5].sufficient_pixels
                   /\ f.class[5].sufficient_pixels =>
                          <<f.year, f.class[5].mean>> \in
                              {dataArrays[n] : n \in 1..Len(dataArrays)}
        /\ \A i \in 1..Len(dataArrays) : ~dataArrays[i][2].null
        /\ SeriesYears \subseteq
               {annual_albedo_high_snow[i].year : i \in 1..Len(annual_albedo_high_snow)}

C10_Witness ==
    /\ seriesPc = "arrays"
    /\ Len(annual_albedo_high_snow) >= 3
    /\ ~annual_albedo_high_snow[1].class[5].sufficient_pixels
    /\ annual_albedo_high_snow[2].class[5].sufficient_pixels
    /\ ~annual_albedo_high_snow[3].class[5].sufficient_pixels
    /\ annual_albedo_high_snow[3].class[5].count > 0
    /\ Len(dataArrays) >= 1
    /\ dataArrays[1][1] = 2011

(***************************************************************************)
(* Claims about the deep statistical analysis                              *)
(***************************************************************************)

Returned == trendPc = "returned"

\* the year series is missing or has fewer than 5 entries
SeriesShort == arrays.null \/ Len(arrays.pairs) < 5

TrendYears == [i \in 1..Len(arrays.pairs) |-> arrays.pairs[i][1]]
TrendValues == [i \in 1..Len(arrays.pairs) |-> arrays.pairs[i][2]]

AnalysisHeaders ==
    {"SEN'S SLOPE ANALYSIS", "CHANGE POINT DETECTION", "VARIABILITY ANALYSIS",
     "ANOMALY DETECTION", "TEMPORAL PERSISTENCE", "CLIMATE CHANGE SIGNAL"}

PrintedLines == {printed[k].line : k \in 1..Len(printed)}

\* C11: when the year series is missing or has fewer than 5 entries the
\* callback prints the insufficient-data line and nothing else, assigns none
\* of its local variables and returns; with 5 entries or more it prints the
\* report with the six analyses.
C11_EarlyExit ==
    Returned =>
        IF SeriesShort
        THEN /\ printed = InsufficientReport
             /\ locals = NoLocals
             /\ PrintedLines \cap AnalysisHeaders = {}
        ELSE /\ AnalysisHeaders \subseteq PrintedLines
             /\ "Insufficient data for deep analysis" \notin PrintedLines
             /\ ~locals.sensSlope.null

C11_Witness ==
    /\ Returned
    /\ ~arrays.null
    /\ Len(arrays.pairs) = 4
    /\ printed = InsufficientReport

\* the positions i < j of the series and the slope between two of them
SlopePairs == {p \in (1..Len(arrays.pairs)) \X (1..Len(arrays.pairs)) : p[1] < p[2]}

SlopeBetween(p) ==
    over(minus(TrendValues[p[2]], TrendValues[p[1]]),
         <<TrendYears[p[2]] - TrendYears[p[1]], 1>>)

\* the k-th smallest of the pairwise slopes, counted with multiplicity
KthSlope(k) ==
    LET x == CHOOSE q \in SlopePairs :
                 /\ Cardinality({p \in SlopePairs : less(SlopeBetween(p), SlopeBetween(q))}) < k
                 /\ Cardinality({p \in SlopePairs : ~less(SlopeBetween(q), SlopeBetween(p))}) >= k
    IN  SlopeBetween(x)

MedianSlope ==
    LET count == Cardinality(SlopePairs)
    IN  IF count % 2 = 0
        THEN over(plus(KthSlope(count \div 2), KthSlope(count \div 2 + 1)), <<2, 1>>)
        ELSE KthSlope((count + 1) \div 2)

\* C12: for a series of n >= 5 pairs with distinct years the reported Sen's
\* slope is the median of the n(n-1)/2 pairwise slopes: the central value of
\* the sorted multiset, or the average of its two central values when their
\* number is even.
C12_SensSlopeIsMedian ==
    (Returned /\ ~SeriesShort) =>
        /\ Len(locals.slopes) = (locals.n * (locals.n - 1)) \div 2
        /\ locals.sensSlope = Num(MedianSlope)

C12_Witness ==
    /\ Returned
    /\ ~SeriesShort
    /\ Len(locals.slopes) % 2 = 0
    /\ locals.slopes[Len(locals.slopes) \div 2] # locals.slopes[Len(locals.slopes) \div 2 + 1]
    /\ locals.sensSlope = Num(MedianSlope)

\* the series lies on a line: the slope between the first two years holds
\* between the first year and every other
LineSlope == SlopeBetween(<<1, 2>>)

IsLinear ==
    \A i \in 1..Len(arrays.pairs) :
        TrendValues[i] =
            plus(TrendValues[1],
                 times(LineSlope, <<TrendYears[i] - TrendYears[1], 1>>))

PermLen == 5

\* the series in the order p
Reordered(p) == [i \in 1..Len(arrays.pairs) |-> arrays.pairs[p[i]]]

\* C14: Sen's slope is the same for every reordering of the same (year,
\* value) pairs.
C14_OrderInvariant ==
    (Returned /\ ~SeriesShort /\ Len(arrays.pairs) <= PermLen) =>
        \A p \in Permutations(1..Len(arrays.pairs)) :
            sensSlopeBlock(datasetOverview(Reordered(p))).sensSlope = locals.sensSlope

C14_Witness ==
    /\ Returned
    /\ ~SeriesShort
    /\ Len(arrays.pairs) <= PermLen
    /\ locals.slopes[1] # locals.slopes[Len(locals.slopes)]
    /\ \E p \in Permutations(1..Len(arrays.pairs)) :
           /\ p[1] = Len(arrays.pairs)
           /\ sensSlopeBlock(datasetOverview(Reordered(p))).sensSlope = locals.sensSlope

\* the mean of the w values from the 0-based index from on
WindowMean(from, w) == over(reduce(slice(TrendValues, from, from + w)), <<w, 1>>)

\* the 0-based indices at which the scan records a change point
ChangeIndices ==
    {i \in 0..(Len(arrays.pairs) - 1) :
        /\ 3 <= i
        /\ i < Len(arrays.pairs) - 3
        /\ less(<<3, 100>>, Math_abs(minus(WindowMean(i, 3), WindowMean(i - 3, 3))))}

HalfLength == Len(arrays.pairs) \div 2
EarlyHalf == 1..HalfLength
LateHalf == (Len(arrays.pairs) - HalfLength + 1)..Len(arrays.pairs)
MeanOver(S) ==
    over(reduce([k \in 1..Cardinality(S) |->
                    TrendValues[(CHOOSE m \in S : \A x \in S : m <= x) + k - 1]]),
         <<Cardinality(S), 1>>)
LateMinusEarly == minus(MeanOver(LateHalf), MeanOver(EarlyHalf))
PercentChange == times(over(LateMinusEarly, MeanOver(EarlyHalf)), <<100, 1>>)

SignalLine == {printed[k].value : k \in {j \in 1..Len(printed) : printed[j].line = "Climate signal"}}

\* C16: the split-period comparison is printed iff n >= 10; it compares the
\* mean of the first floor(n/2) values with the mean of the last floor(n/2)
\* values, which never overlap and leave the middle year out when n is odd,
\* gives late minus early and its percentage of the early mean, and prints
\* STRONG when |%| > 5, MODERATE when 2 < |%| <= 5 and WEAK otherwise.
C16_SplitPeriod ==
    (Returned /\ ~SeriesShort) =>
        IF Len(arrays.pairs) >= 10
        THEN /\ EarlyHalf \cap LateHalf = {}
             /\ (Len(arrays.pairs) % 2 = 1 =>
                    (HalfLength + 1) \notin (EarlyHalf \cup LateHalf))
             /\ locals.earlyMean = Num(MeanOver(EarlyHalf))
             /\ locals.lateMean = Num(MeanOver(LateHalf))
             /\ locals.periodDiff = Num(LateMinusEarly)
             /\ locals.relativeChange = number(PercentChange)
             /\ SignalLine =
                   {IF less(<<5, 1>>, Math_abs(PercentChange)) THEN "STRONG"
                    ELSE IF less(<<2, 1>>, Math_abs(PercentChange)) THEN "MODERATE"
                    ELSE "WEAK"}
        ELSE /\ SignalLine = {}
             /\ locals.earlyMean.null
             /\ locals.lateMean.null
             /\ locals.periodDiff.null
             /\ locals.relativeChange = Undefined

C16_Witness ==
    /\ Returned
    /\ Len(arrays.pairs) >= 10
    /\ Len(arrays.pairs) % 2 = 1
    /\ SignalLine = {"MODERATE"}
    /\ TrendValues[HalfLength + 1] # TrendValues[HalfLength]

\* the z-score of a value against the mean and standard deviation the
\* callback holds, and the flag it gets: "HIGH", "LOW" or none
ZScore(v) == zScoreOf(v, locals.mean, locals.stdDev)
Flag(v) ==
    IF rootGreater(rootAbs(ZScore(v)), <<2, 1>>)
    THEN anomalyTag([zScore |-> ZScore(v)]) ELSE "none"
Mirror(v) == minus(times(<<2, 1>>, locals.mean.value), v)

\* the values tried for the symmetry: those of the series and a few more
Probes == {TrendValues[i] : i \in 1..Len(arrays.pairs)}
              \cup {<<1, 2>>, <<3, 5>>, <<33, 50>>, <<3, 4>>, <<9, 10>>}

\* (v - globalMean)^2 > 4 * variance, with the sample variance of the series
GlobalMean == over(reduce(TrendValues), <<Len(arrays.pairs), 1>>)
SampleVariance ==
    over(reduce([i \in 1..Len(arrays.pairs) |->
                    Math_pow2(minus(TrendValues[i], GlobalMean))]),
         <<Len(arrays.pairs) - 1, 1>>)
Outlying(i) ==
    less(times(<<4, 1>>, SampleVariance), Math_pow2(minus(TrendValues[i], GlobalMean)))

PersistenceLevels == {"HIGH", "MODERATE", "LOW"}

ConstantSeries == \A i \in 1..Len(arrays.pairs) : TrendValues[i] = TrendValues[1]

\* C18: for a constant series of n >= 5 years the autocorrelation step gives
\* one defined outcome, 0 or undefined (NaN), whatever the constant and the
\* length are, prints a persistence level and lets the callback go on to
\* the climate signal and the end of the report.
C18_ConstantSeries ==
    (Returned /\ ~SeriesShort /\ ConstantSeries) =>
        /\ locals.autocorr \in {NaN, Finite(0, <<0, 1>>)}
        /\ locals.persistence \in PersistenceLevels
        /\ {"CLIMATE CHANGE SIGNAL", "END"} \subseteq PrintedLines

\* the local variables right after years, albedoValues and n are set
Fresh == datasetOverview(arrays.pairs)

\* every analysis has left its output
AllOutputs ==
    /\ AnalysisHeaders \subseteq PrintedLines
    /\ "END" \in PrintedLines
    /\ ~locals.sensSlope.null
    /\ \/ "change point" \in PrintedLines
       \/ "No significant change points detected" \in PrintedLines
    /\ ~locals.mean.null
    /\ locals.stdDev.kind = "finite"
    /\ Len(locals.rollingCV) = Len(arrays.pairs) - 4
    /\ \/ "anomaly" \in PrintedLines
       \/ "No statistical anomalies detected" \in PrintedLines
    /\ locals.persistence \in PersistenceLevels
    /\ "Persistence level" \in PrintedLines
    /\ "Climate signal" \in PrintedLines <=> Len(arrays.pairs) >= 10

\* the analyses other than the anomaly detection give, run first and alone,
\* what they give in the order of the script
AloneAsInOrder ==
    /\ sensSlopeBlock(Fresh).sensSlope = locals.sensSlope
    /\ changePointBlock(Fresh).changePoints = locals.changePoints
    /\ LET alone == variabilityBlock(Fresh)
       IN  /\ alone.mean = locals.mean
           /\ alone.stdDev = locals.stdDev
           /\ alone.cv = locals.cv
           /\ alone.minCV = locals.minCV
           /\ alone.maxCV = locals.maxCV
    /\ LET alone == autocorrelationBlock(Fresh, meanRounded)
       IN  /\ alone.autocorr = locals.autocorr
           /\ alone.persistence = locals.persistence
    /\ LET alone == climateSignalBlock(Fresh)
       IN  /\ alone.periodDiff = locals.periodDiff
           /\ alone.relativeChange = locals.relativeChange

\* C19 as stated: for n >= 5 every one of the six analyses leaves its
\* output whatever the others find, and each gives the same result when it
\* is run first, before the others.
C19_Original ==
    (Returned /\ ~SeriesShort) =>
        /\ AllOutputs
        /\ AloneAsInOrder
        /\ anomalyBlock(Fresh).anomalies = locals.anomalies

\* C19: for n >= 5 every one of the six analyses leaves its output whatever
\* the others find; Sen's slope, the change-point scan, the variability, the
\* autocorrelation and the split-period comparison give the same result when
\* run first, and the anomaly detection gives its result when it is run
\* after the variability analysis, whose mean and stdDev it reads.
C19_Independent ==
    (Returned /\ ~SeriesShort) =>
        /\ AllOutputs
        /\ AloneAsInOrder
        /\ anomalyBlock(variabilityBlock(Fresh)).anomalies = locals.anomalies

C19_Witness ==
    /\ Returned
    /\ Len(arrays.pairs) = 6
    /\ Len(locals.anomalies) > 0
    /\ locals.changePoints = <<>>
    /\ locals.persistence \in PersistenceLevels
    /\ "Climate signal" \notin PrintedLines
    /\ anomalyBlock(Fresh).anomalies = <<>>

\* the series of the documented scenario
IsScenario ==
    arrays.pairs = [i \in 1..10 |-> <<2009 + i, Rat(ScenarioValues[i], 100)>>]

\* a number in units of 0.0001, rounded to the nearest
RoundedE4(x) ==
    sign(x) * ((2 * Abs(x[1]) * 10000 + x[2]) \div (2 * x[2]))

ScenarioRest ==
    /\ less(locals.lateMean.value, locals.earlyMean.value)
    /\ less(PercentChange, <<0 - 5, 1>>)
    /\ locals.relativeChange = number(PercentChange)
    /\ SignalLine = {"STRONG"}
    /\ locals.anomalies = <<>>
    /\ \A i \in 1..10 : ~Outlying(i)

\* C20 as stated: for 2010..2019 with the values 0.70 .. 0.58 Sen's slope is
\* -0.0133 to four decimals, the late mean is below the early mean with a
\* relative change below -5% (STRONG) and no year has |z| > 2.
C20_Original ==
    (Returned /\ IsScenario) =>
        /\ RoundedE4(locals.sensSlope.value) = 0 - 133
        /\ ScenarioRest

\* C20: for 2010..2019 with the values 0.70 .. 0.58 Sen's slope is -0.0140
\* (the median of the 45 pairwise slopes is -0.014; -0.0133 is the slope
\* between the first and the last year), the late mean is below the early
\* mean with a relative change below -5% (STRONG) and no year has |z| > 2.
C20_Scenario ==
    (Returned /\ IsScenario) =>
        /\ locals.sensSlope = Num(<<0 - 7, 500>>)
        /\ RoundedE4(locals.sensSlope.value) = 0 - 140
        /\ RoundedE4(SlopeBetween(<<1, 10>>)) = 0 - 133
        /\ ScenarioRest

C20_Witness ==
    /\ Returned
    /\ IsScenario
    /\ Len(locals.slopes) = 45
    /\ SignalLine = {"STRONG"}

(***************************************************************************)
(* Claims about the two classifiers and the classes of the records         *)
(***************************************************************************)

\* the classes whose whole interval lies below the glacier-fraction threshold
BelowThreshold ==
    {c \in 1..4 : FRACTION_THRESHOLDS[c] <= GLACIER_FRACTION_THRESHOLD * 100}

\* a class of a record that no observation has reached
EmptyClass(props) ==
    /\ props.count = 0
    /\ ~props.sufficient_pixels
    /\ props.mean.null
    /\ props.spread.null

\* C27: a class whose whole interval lies below the glacier-fraction
\* threshold (0-25%, 25-50% and 50-75% under the threshold of 75%) has the
\* count 0, no sufficient pixels and a null mean in every daily and every
\* annual record, whatever pixels of that class the region holds.
C27_ClassesBelowThreshold ==
    /\ BelowThreshold = {1, 2, 3}
    /\ MIN_PIXEL_THRESHOLD > 0
    /\ \A c \in BelowThreshold :
           /\ aggOp = "daily" => EmptyClass(dailyRec.class[c])
           /\ aggOp = "annual" => EmptyClass(annualRec.class[c])

\* an annual record of a region with enough pixels of the 25-50% class whose
\* observations pass every other mask
C27_Witness ==
    /\ aggOp = "annual"
    /\ \E k \in Kinds :
           /\ PixelKinds[k].frac >= 2500 /\ PixelKinds[k].frac < 5000
           /\ region[k] >= MIN_PIXEL_THRESHOLD
           /\ \E d \in Images : combined_mask_nofraction(PixelKinds[k].obs[d], PixelKinds[k].frac)
    /\ EmptyClass(annualRec.class[2])

\* C28: for a pixel of the pixel-level export (glacier fraction > 0) the
\* class of glacier_class_code, and of the glacier_class text decoded from
\* it, is the one class whose mask createFractionMasks sets.
C28_ClassifiersAgree ==
    (MasksDone /\ PixelDone /\ pixelClass.sampled) =>
        /\ pixelClass.glacier_class_code \in 1..5
        /\ TrueMasks = {pixelClass.glacier_class_code}
        /\ \A i \in 1..5 :
               masks[FRACTION_CLASS_NAMES[i]] <=> pixelClass.glacier_class = ClassTexts[i]

C28_Witness ==
    /\ MasksDone /\ PixelDone
    /\ pixelClass.sampled
    /\ STATIC_GLACIER_FRACTION = 7500
    /\ pixelClass.glacier_class = "75-90%"
    /\ masks["glacier_75_90pct"]

(***************************************************************************)
(* Claims about the comparison with the unfiltered albedo                  *)
(***************************************************************************)

\* C21: the difference of the comparison record is null iff the filtered
\* mean or the unfiltered mean is null, and is otherwise the filtered mean
\* minus the unfiltered mean; a mean of 0 counts as available.
C21_NullPropagation ==
    aggOp = "compare" =>
        /\ compareRec.difference.null <=>
               (compareRec.filtered_mean.null \/ compareRec.unfiltered_mean.null)
        /\ ~compareRec.difference.null =>
               compareRec.difference.value =
                   RatSub(compareRec.filtered_mean.value,
                          compareRec.unfiltered_mean.value)

(***************************************************************************)
(* Claims about the pixel-level flag columns and the inspector             *)
(***************************************************************************)

\* the flag columns in the order of their bits 0..7
FlagColumns ==
    <<"flag_inland_water", "flag_visible_fail", "flag_ndsi_fail",
      "flag_temp_height_fail", "flag_swir_anomaly", "flag_probably_cloudy",
      "flag_probably_clear", "flag_high_solar_zenith">>

RECURSIVE PowerOfTwo(_)
PowerOfTwo(k) == IF k = 0 THEN 1 ELSE 2 * PowerOfTwo(k - 1)

\* bit k of a by division
BitOf(a, k) == (a \div PowerOfTwo(k)) % 2

\* the flag column of bit k as an integer, when it is one
ColumnOf(k) == pixelRow.flag_bits[FlagColumns[k + 1]]

\* C29: for every algorithm_flags value a of 0..255 each of the eight flag
\* columns is 0 or 1 and is bit k of a, so that the sum of flag_k * 2^k is a;
\* and passes_standard_qa is 1 iff basic_qa is 0 or 1 and every flag column
\* but flag_probably_clear is 0.
C29_FlagRoundTrip ==
    pixelDone =>
        /\ \A k \in 0..7 :
               /\ ColumnOf(k) \in {<<0, 1>>, <<1, 1>>}
               /\ ColumnOf(k)[1] = BitOf(pixelRow.algorithm_flags, k)
        /\ SeqSum([i \in 1..8 |-> ColumnOf(i - 1)[1] * PowerOfTwo(i - 1)])
               = pixelRow.algorithm_flags
        /\ pixelRow.algorithm_flags = pixelImg.algorithmFlags
        /\ pixelRow.passes_standard_qa \in {0, 1}
        /\ pixelRow.passes_standard_qa = 1 <=>
               /\ pixelRow.basic_qa \in {0, 1}
               /\ \A k \in 0..7 :
                      FlagColumns[k + 1] # "flag_probably_clear" => ColumnOf(k) = <<0, 1>>

C29_Witness ==
    /\ pixelDone
    /\ pixelImg.algorithmFlags = 64 + 128
    /\ pixelImg.basicQA = 1
    /\ pixelRow.flag_bits.flag_probably_clear = <<1, 1>>
    /\ pixelRow.flag_bits.flag_high_solar_zenith = <<1, 1>>
    /\ pixelRow.flag_bits.flag_probably_cloudy = <<0, 1>>
    /\ pixelRow.passes_standard_qa = 0

FlagsMissing == clicked.props.NDSI_Snow_Cover_Algorithm_Flags_QA.undefined

GlacierMaskLayer == NamedLayer("Saskatchewan Glacier Mask")

\* the labels of the interface
Labels(u) ==
    <<u.selectedDateLabel, u.ndsiLabel, u.glacierFractionLabel, u.minPixelLabel,
      u.statsLabel, u.qaBasicLabel, u.qaStatsLabel>>

\* the interface as it would be with no image loaded
Unloaded(u) == [u EXCEPT !.currentImage = 0]

\* a pass of updateFiltering has run in the step
PassRan == ui'.pass.id = ui.pass.id + 1

\* C30: in every state after the initialisation of the script the first map
\* layer is the glacier-mask layer and the clearing loop of updateFiltering
\* leaves exactly that layer; right after the synchronous part of a pass the
\* map holds the mask layer and the five inspector layers, in the order of
\* the script; with no image loaded updateFiltering changes no layer and no
\* label.
C30_MapLayers ==
    /\ ui.layers[1] = GlacierMaskLayer
    /\ [][/\ Len(ui'.layers) >= 1
          /\ ui'.layers[1] = GlacierMaskLayer
          /\ clearLayers(ui'.layers) = <<GlacierMaskLayer>>
          /\ PassRan => ui'.layers = <<GlacierMaskLayer>> \o InspectorLayers
          /\ updateFiltering(Unloaded(ui')).layers = ui'.layers
          /\ Labels(updateFiltering(Unloaded(ui'))) = Labels(ui')
          /\ updateFiltering(Unloaded(ui')).pending = ui'.pending]_vars

\* a second pass has cleared the layers of the first and a request that came
\* back has added the albedo layer behind the five inspector layers
C30_Witness ==
    /\ ui.pass.id = 2
    /\ Len(ui.layers) = 7
    /\ ui.layers[7].name = "Filtered Albedo"
    /\ ui.layers[1] = GlacierMaskLayer

\* C23: whatever the user does in the interface, the three thresholds of the
\* script and the thresholds and QA configuration of the annual, daily and
\* pixel-level exports stay the configured constants and the standard QA
\* configuration.
C23_ExportsFixed ==
    /\ ui.globals.NDSI_SNOW_THRESHOLD = NDSI_SNOW_THRESHOLD
    /\ ui.globals.GLACIER_FRACTION_THRESHOLD = GLACIER_FRACTION_THRESHOLD
    /\ ui.globals.MIN_PIXEL_THRESHOLD = MIN_PIXEL_THRESHOLD
    /\ \A e \in {"annual", "daily", "pixel"} :
          /\ ui.exports[e].qaConfig = StandardQAConfig
          /\ ui.exports[e].ndsi_snow_threshold = NDSI_SNOW_THRESHOLD
          /\ ui.exports[e].glacier_fraction_threshold = GLACIER_FRACTION_THRESHOLD
          /\ ui.exports[e].min_pixel_threshold = MIN_PIXEL_THRESHOLD

\* a slider stands away from its constant, the QA controls away from the
\* standard configuration, a pass has run with them and the parameters
\* have been printed
C23_Witness ==
    /\ \/ ui.ndsiSlider # NDSI_SNOW_THRESHOLD
       \/ ui.glacierFractionSlider # GLACIER_FRACTION_THRESHOLD
       \/ ui.minPixelSlider # MIN_PIXEL_THRESHOLD
    /\ ui.basicQASelect # StandardQAConfig.basicLevel
    /\ flagConfig(ui.checked).excludeProbablyCloudy
           # StandardQAConfig.excludeProbablyCloudy
    /\ ui.pass.id = 2
    /\ Text("Optimal parameters found", <<>>) \in ui.console

\* the user has changed one of the controls in the step
ControlChanged ==
    \/ ui'.ndsiSlider # ui.ndsiSlider
    \/ ui'.glacierFractionSlider # ui.glacierFractionSlider
    \/ ui'.minPixelSlider # ui.minPixelSlider
    \/ ui'.basicQASelect # ui.basicQASelect
    \/ ui'.checked # ui.checked

\* the pass of the step has run with the values the controls have after it
PassWithCurrentValues ==
    /\ PassRan
    /\ ui'.pass.ndsiThreshold = ui'.ndsiSlider
    /\ ui'.pass.glacierThreshold = ui'.glacierFractionSlider
    /\ ui'.pass.minPixelThreshold = ui'.minPixelSlider
    /\ ui'.pass.dayStats.count =
           reduceCount(UIRegion,
               filtered_albedo_UI(ui'.currentImage, ui'.ndsiSlider,
                                  ui'.glacierFractionSlider, ui'.basicQASelect,
                                  ui'.checked))

\* C24: with a date loaded, every change of a slider, of the basic QA level
\* or of a flag checkbox runs updateFiltering in the same step, with the
\* values the controls then have.
C24_ControlChangeRunsPass ==
    [][(ui.currentImage # 0 /\ ControlChanged) => PassWithCurrentValues]_vars

\* the albedo layers of the map
AlbedoLayers(u) == {i \in 1..Len(u.layers) : u.layers[i].name = "Filtered Albedo"}

\* the statistics label as the callback of the latest pass writes it
LatestStats(u) == dayStatsCallback(u, u.pass, u.pass.dayStats).statsLabel

\* C25: when every pending request has come back with its result, in
\* whatever order and however the passes overlapped, the map holds exactly
\* one 'Filtered Albedo' layer and the statistics label shows the result of
\* the pass started last.
C25_OverlapRedundant ==
    (ui.pending = {} /\ uiFailures = 0) =>
        /\ Cardinality(AlbedoLayers(ui)) = 1
        /\ ui.statsLabel = LatestStats(ui)

\* the request that has come back in the step, with a failure
FailedRequest(kind, scope) ==
    /\ uiFailures' = uiFailures + 1
    /\ Request(kind, scope) \in ui.pending
    /\ Request(kind, scope) \notin ui'.pending

\* the wordings the statistics label has when it shows no stale result
NoDataWordings == {"No qualified pixels", "Statistics: Waiting..."}

\* C26: a failed request is logged and its output falls back to a default:
\* a failed palette range still adds the albedo layer of its pass with the
\* range 0.4-0.9, a failed statistics request leaves the statistics label
\* in a 'no data' state, no exception is raised, and a later pass still runs.
C26_FailureFallsBack ==
    [][\A kind \in {"albedoRange", "dayStats"} :
       \A scope \in {r.scope : r \in ui.pending} :
          FailedRequest(kind, scope) =>
            /\ ~ui'.thrown
            /\ ui'.console # ui.console
            /\ kind = "albedoRange" =>
                  /\ Len(ui'.layers) = Len(ui.layers) + 1
                  /\ ui'.layers[Len(ui'.layers)].name = "Filtered Albedo"
                  /\ ui'.layers[Len(ui'.layers)].ndsi = scope.ndsiThreshold
                  /\ ui'.layers[Len(ui'.layers)].min = <<2, 5>>
                  /\ ui'.layers[Len(ui'.layers)].max = <<9, 10>>
            /\ kind = "dayStats" => ui'.statsLabel.wording \in NoDataWordings
            /\ updateFiltering(ui').pass.id = ui'.pass.id + 1]_vars

====
